---- MODULE Spec2Model ----
(***************************************************************************)
(* The reconciliation and import pipeline of the GEMINI harvesters          *)
(* (ckanext/spatial/harvesters/gemini.py).                                  *)
(*                                                                          *)
(* State: the harvest_object table (objs), the catalog's packages (pkgs),   *)
(* the harvest jobs with their gather errors (jobs), the sources that have  *)
(* been deactivated (inactive) and the configuration.  One action per       *)
(* handler: the gather stages, import_stage (the whole handler, with the    *)
(* calls it makes), and the two things users do to the catalog from the     *)
(* outside (delete a package, deactivate a source).                         *)
(***************************************************************************)
EXTENDS Integers, Sequences, FiniteSets, TLC

VARIABLES objs, pkgs, jobs, inactive, reject, reimports, externals, last, procs

vars == <<objs, pkgs, jobs, inactive, reject, reimports, externals, last, procs>>

(***************************************************************************)
(* Bounds of the model.                                                     *)
(***************************************************************************)
MaxObjs == 2        \* harvest objects in the table
MaxGateObjs == 2    \* harvest objects in the table, gate specification
MaxJobs == 2        \* harvest jobs
MaxReimports == 1   \* forced reimports (harvest_objects_import runs)
MaxExternal == 1    \* events from outside: a package deletion, a source
                    \* deactivation, a failure of the catalog or of the
                    \* coupled-resources update
MaxWafLinks == 2    \* documents one WAF index page links to
MaxCswItems == 3    \* identifiers one CSW enumeration yields

NoDate == 0 - 1     \* metadata_modified_date is None
NoPackage == 0 * 1  \* package_id is None
NoContent == [none |-> TRUE]   \* harvest_object.content is None

(***************************************************************************)
(* Harvest sources: publisher_id and the 'skip-responsible-party' entry of  *)
(* the source's JSON config (absent, a single name, or a list of names).    *)
(***************************************************************************)
SourceIds == {"s1", "s2", "s3"}

Sources ==
    [s \in SourceIds |->
        CASE s = "s1" -> [publisher_id |-> "A", skip |-> [kind |-> "absent"]]
          [] s = "s2" -> [publisher_id |-> "B",
                          skip |-> [kind |-> "string", name |-> "OrgX"]]
          [] s = "s3" -> [publisher_id |-> "A",
                          skip |-> [kind |-> "list", names |-> {"OrgX", "OrgY"}]]]

(***************************************************************************)
(* Documents.  A document is the raw content of a harvest object; the       *)
(* fields GeminiDocument.read_values() extracts and the validator's verdict *)
(* are functions of the content, so the content is modelled as the record   *)
(* of those fields plus `body', which stands for everything else in the     *)
(* XML (abstract, resource locators, ...).                                  *)
(***************************************************************************)
PlainDate(d) == [kind |-> "date", d |-> d, t |-> 0]
DateTime(d, t) == [kind |-> "datetime", d |-> d, t |-> t]
BadDate == [kind |-> "bad", d |-> 0, t |-> 0]

Extents ==
    [ok     |-> [rtype |-> "dataset", n |-> 1, s |-> 0, e |-> 1, w |-> 0],
     ns     |-> [rtype |-> "dataset", n |-> 1, s |-> 1, e |-> 1, w |-> 0],
     ew     |-> [rtype |-> "service", n |-> 1, s |-> 0, e |-> 0, w |-> 0],
     nongeo |-> [rtype |-> "nonGeographicDataset", n |-> 0, s |-> 0, e |-> 0, w |-> 0]]

OrgsPlain == << [name |-> "OrgA", role |-> "owner"] >>
OrgsSkip  == << [name |-> "OrgA", role |-> "publisher"],
                [name |-> "OrgX", role |-> "owner"] >>

MkDoc(guid, title, body, date, ext, valid, orgs) ==
    [guid |-> guid, title |-> title, body |-> body, date |-> date,
     rtype |-> Extents[ext].rtype,
     north |-> Extents[ext].n, south |-> Extents[ext].s,
     east |-> Extents[ext].e, west |-> Extents[ext].w,
     valid |-> valid, orgs |-> orgs]

\* The documents of the reconciliation specification: two identities, two
\* titles, two bodies, three metadata dates, and one zero-area extent.
Docs ==
    { MkDoc("g1", "t1", "b1", PlainDate(1), "ok", TRUE, OrgsPlain),
      MkDoc("g1", "t1", "b1", PlainDate(2), "ok", TRUE, OrgsPlain),
      MkDoc("g1", "t1", "b2", PlainDate(1), "ok", TRUE, OrgsPlain),
      MkDoc("g1", "t2", "b1", PlainDate(2), "ok", TRUE, OrgsPlain),
      MkDoc("g1", "t1", "b1", DateTime(1, 1), "ok", TRUE, OrgsPlain),
      MkDoc("g2", "t1", "b1", PlainDate(1), "ok", TRUE, OrgsPlain),
      MkDoc("g1", "t2", "b1", PlainDate(2), "ns", TRUE, OrgsPlain) }

\* The documents of the gate specification: every combination of extent,
\* validity, responsible parties and (un)parsable metadata date.
GateDocs ==
    { MkDoc("g1", "t1", "b1", d, x, v, o) :
        d \in {PlainDate(1), BadDate},
        x \in {"ok", "ns", "ew", "nongeo"},
        v \in BOOLEAN,
        o \in {OrgsPlain, OrgsSkip} }

(***************************************************************************)
(* Records of the store.                                                    *)
(*   objs[i]  harvest object i: guid, job, content, metadata_modified_date, *)
(*            current, package_id, the HarvestObjectErrors saved for it and *)
(*            what import_stage last returned for it ("pending" before).    *)
(*   pkgs[p]  package p (p is its id).                                      *)
(*   jobs[j]  harvest job j: its source and its HarvestGatherErrors.        *)
(***************************************************************************)
HarvestObject(guid, job, content) ==
    [guid |-> guid, job |-> job, content |-> content,
     metadata_modified_date |-> NoDate, current |-> FALSE,
     package_id |-> NoPackage, errors |-> <<>>, ret |-> "pending"]

ObjSource(os, i) == jobs[os[i].job].source

ObjectError(kind, msg) == [stage |-> "Import", kind |-> kind, msg |-> msg]

\* The error handed over but never stored.
_save_object_error_lost(os, o, kind, msg) == os

_save_object_error(os, o, kind, msg) ==
    [os EXCEPT ![o].errors = Append(@, ObjectError(kind, msg))]

\* The gather error handed over but never stored.
_save_gather_error_lost(js, j, msg) == js

_save_gather_error(js, j, msg) ==
    [js EXCEPT ![j].gather_errors = Append(@, msg)]

(***************************************************************************)
(* Pure helpers of write_package_from_gemini_string.                        *)
(***************************************************************************)
\* datetime.strptime with '%Y-%m-%d', then with '%Y-%m-%dT%H:%M:%S'.  A plain
\* date parses to midnight of its day; two time slots per day are modelled.
strptime(date) ==
    IF date.kind = "date" THEN [ok |-> TRUE, value |-> date.d * 2]
    ELSE IF date.kind = "datetime" THEN [ok |-> TRUE, value |-> date.d * 2 + date.t]
    ELSE [ok |-> FALSE, value |-> NoDate]

\* metadata_modified_date.strftime('%Y-%m-%d')
strftime(value) == value \div 2

\* The extent check with the east/west comparison left out.
ZeroAreaNorthSouthOnly(doc) ==
    doc.rtype # "nonGeographicDataset" /\ doc.north = doc.south

ZeroArea(doc) ==
    doc.rtype # "nonGeographicDataset"
    /\ (doc.north = doc.south \/ doc.west = doc.east)

last_harvested_objects(os, guid) ==
    {i \in DOMAIN os : os[i].guid = guid /\ os[i].current}

\* The same-job guard without its exemption for force_import.
same_job_guard_forced_too(os, l, o, force) ==
    os[l].job = os[o].job

same_job_guard(os, l, o, force) ==
    os[l].job = os[o].job /\ ~force

\* The publisher comparison answering "unchanged" for every package.
has_publisher_changed_never(os, ps, l, o) ==
    ps[os[l].package_id].owner_org # ps[os[l].package_id].owner_org

has_publisher_changed(os, ps, l, o) ==
    ps[os[l].package_id].owner_org # Sources[ObjSource(os, o)].publisher_id

\* The publisher guard with the test of the package state inverted.
publisher_guard_deleted_only(os, ps, l, o) ==
    has_publisher_changed(os, ps, l, o) /\ ps[os[l].package_id].state = "deleted"

publisher_guard(os, ps, l, o) ==
    has_publisher_changed(os, ps, l, o) /\ ps[os[l].package_id].state # "deleted"

\* The update decision with "not later" where the code has "earlier".
needs_update_on_equal_date(os, l, o, force, inact) ==
    \/ os[l].metadata_modified_date = NoDate
    \/ os[l].metadata_modified_date <= os[o].metadata_modified_date
    \/ force

\* The update decision without the exception for an inactive prior source.
needs_update_no_wakeup(os, l, o, force, inact) ==
    \/ os[l].metadata_modified_date = NoDate
    \/ os[l].metadata_modified_date < os[o].metadata_modified_date
    \/ force

needs_update(os, l, o, force, inact) ==
    \/ os[l].metadata_modified_date = NoDate
    \/ os[l].metadata_modified_date < os[o].metadata_modified_date
    \/ force
    \/ /\ os[l].metadata_modified_date = os[o].metadata_modified_date
       /\ ObjSource(os, l) \in inact

\* The contents check without the comparison of the two dates.
contents_changed_any_date(os, l, o) ==
    os[l].content # os[o].content

\* The contents check never finding a difference.
contents_changed_never(os, l, o) == FALSE

contents_changed(os, l, o) ==
    /\ os[l].content # os[o].content
    /\ os[l].metadata_modified_date = os[o].metadata_modified_date

munge_title_to_name(title) == title

PackageName(slug, n) == [slug |-> slug, n |-> n]
NoName == [slug |-> "", n |-> 0]

\* Lines 865-871: the name, else the first of name1..name100, that is not
\* in the list the query returned; None when all of them are in it.
first_not_taken(name, taken) ==
    LET free(n) == PackageName(name, n) \notin taken
    IN  IF free(0) THEN PackageName(name, 0)
        ELSE IF \E n \in 1..100 : free(n)
             THEN PackageName(name, CHOOSE n \in 1..100 :
                                       free(n) /\ \A m \in 1..(n - 1) : ~free(m))
             ELSE NoName

\* gen_new_name over a catalog of fewer than 100 packages, where the query
\* of line 863 returns every package whose name starts with the slug.
gen_new_name(ps, title) ==
    LET name == munge_title_to_name(title)
        taken == {ps[p].name : p \in {q \in DOMAIN ps : ps[q].name.slug = name}}
    IN  first_not_taken(name, taken)

(***************************************************************************)
(* write_package_from_gemini_string.  The result says how the call ended    *)
(* (kind: "abort" = ImportAbort raised, "error" = another exception,        *)
(* "skip" = returned None, "ok" = returned the package_dict), what it       *)
(* decided ("create", "update", "skip" or "none"), and the store it leaves. *)
(***************************************************************************)
WriteResult(kind, decision, msg, os, ps, pid) ==
    [kind |-> kind, decision |-> decision, msg |-> msg,
     objs |-> os, pkgs |-> ps, pid |-> pid]

\* The name of the package written: a new one when the package is new or its
\* title changed (from the title, else from the GUID), else the existing one.
package_name(ps, p, doc) ==
    IF p = NoPackage \/ ps[p].title # doc.title
    THEN IF gen_new_name(ps, doc.title) # NoName
         THEN gen_new_name(ps, doc.title)
         ELSE gen_new_name(ps, doc.guid)
    ELSE ps[p].name

\* config 'ckan.harvest.extras_not_overwritten': the keys of the extras that
\* an update is to leave as they are in the catalog.
extras_not_overwritten == {"theme-primary"}

\* Line 430: package = None.  The name is bound to the existing package only
\* at line 540, after the block of lines 466-472 that reads it.
package_before_lookup == NoPackage

\* Lines 466-472: if package: the extras of the existing package whose keys
\* are in extras_not_overwritten are copied into the new extras.
extras_brought_forward(ps, package) ==
    IF package = NoPackage THEN {}
    ELSE {x \in ps[package].extras : x.key \in extras_not_overwritten}

package_dict(os, ps, o, p, reactivate) ==
    LET doc == os[o].content
    IN  [title |-> doc.title,
         notes |-> doc.body,
         owner_org |-> Sources[ObjSource(os, o)].publisher_id,
         state |-> IF p = NoPackage \/ reactivate THEN "active" ELSE ps[p].state,
         name |-> package_name(ps, p, doc),
         guid |-> doc.guid,
         harvest_object_id |-> o,
         metadata_date |-> strftime(os[o].metadata_modified_date),
         resources |-> <<>>,
         extras |-> extras_brought_forward(ps, package_before_lookup)]

\* The write that always calls package_create.
_create_package_from_data_always_create(ps, dict, p) == Append(ps, dict)

\* _create_package_from_data: package_create with a fresh id, or
\* package_update of the existing package under its own id.
_create_package_from_data(ps, dict, p) ==
    IF p = NoPackage THEN Append(ps, dict) ELSE [ps EXCEPT ![p] = dict]

written_package_id(ps, p) == IF p = NoPackage THEN Len(ps) + 1 ELSE p

\* update(harvest_object_table).where(package_id == b_package_id)
\*     .values(current=False), committed.
\* The bulk update of the current flags matching no row.
mark_not_current_no_rows(os, pid) ==
    [i \in DOMAIN os |->
        IF os[i].package_id = pid /\ os[i].package_id = NoPackage
        THEN [os[i] EXCEPT !.current = FALSE] ELSE os[i]]

\* The bulk update without its where clause.
mark_not_current_every_row(os, pid) ==
    [i \in DOMAIN os |-> [os[i] EXCEPT !.current = FALSE]]

mark_not_current(os, pid) ==
    [i \in DOMAIN os |->
        IF os[i].package_id = pid THEN [os[i] EXCEPT !.current = FALSE] ELSE os[i]]

\* The final save without the link to the package.
mark_current_unlinked(os, o, pid) ==
    [os EXCEPT ![o].current = TRUE]

\* if not self.obj.package_id: ... = package['id']; self.obj.current = True
mark_current(os, o, pid) ==
    [os EXCEPT ![o].package_id = IF @ = NoPackage THEN pid ELSE @,
               ![o].current = TRUE]

(***************************************************************************)
(* The map-service probes.  What the server answers to a GetCapabilities    *)
(* request is "capabilities" (a WMS capabilities document listing one base  *)
(* URL) or one of ProbeFailures: the exception urlopen raises, an empty     *)
(* body, a body that is not XML, XML that is not a WMS capabilities         *)
(* document, an OGC service exception, or any other exception.              *)
(***************************************************************************)
ProbeFailures ==
    {"HTTPError", "URLError", "timeout", "HTTPException", "empty",
     "XMLSyntaxError", "not WMS", "ServiceException", "Exception"}

\* What the value a probe returned is: True/False, a set or list of URLs, or
\* the tuple (False, set()).
ProbeValue(type, urls) == [type |-> type, urls |-> urls]

\* _try_wms_url: every failure is logged and answered with False; so is an
\* uncaught exception, after which the method falls to its last line.
_try_wms_url(response, version) ==
    IF response = "capabilities" THEN TRUE ELSE FALSE

\* _is_wms: WMS 1.3 first, then WMS 1.1.1.
_is_wms(response13, response111) ==
    IF _try_wms_url(response13, "1.3") THEN TRUE
    ELSE _try_wms_url(response111, "1.1.1")

\* _wms_base_urls: returns (False, set()) for HTTPError, URLError and
\* socket.timeout, False for HTTPException and after an uncaught exception,
\* [] for a body that does not parse or is not WMS, else the set of base URLs.
_wms_base_urls(response) ==
    IF response \in {"HTTPError", "URLError", "timeout"}
    THEN ProbeValue("tuple (False, set())", {})
    ELSE IF response \in {"HTTPException", "Exception"}
    THEN ProbeValue("False", {})
    ELSE IF response \in {"XMLSyntaxError", "empty", "not WMS", "ServiceException"}
    THEN ProbeValue("list", {})
    ELSE ProbeValue("set", {"base1"})

\* ' '.join(base_urls) raises TypeError for False and for a tuple holding
\* False; for a set or list of strings it is their concatenation.
join_raises(value) == value.type \notin {"set", "list"}

\* What the servers answer during one import: to the two is-WMS requests
\* and to the base-URLs request ("unreached" where the code cannot get there).
ProbeEnvs ==
    [wms_HTTPError |-> [v13 |-> "HTTPError", v111 |-> "HTTPError", base |-> "unreached"],
     wms_URLError |-> [v13 |-> "URLError", v111 |-> "URLError", base |-> "unreached"],
     wms_timeout |-> [v13 |-> "timeout", v111 |-> "timeout", base |-> "unreached"],
     wms_HTTPException |-> [v13 |-> "HTTPException", v111 |-> "HTTPException", base |-> "unreached"],
     wms_empty |-> [v13 |-> "empty", v111 |-> "empty", base |-> "unreached"],
     wms_XMLSyntaxError |-> [v13 |-> "XMLSyntaxError", v111 |-> "XMLSyntaxError", base |-> "unreached"],
     wms_not_WMS |-> [v13 |-> "not WMS", v111 |-> "not WMS", base |-> "unreached"],
     wms_ServiceException |-> [v13 |-> "ServiceException", v111 |-> "ServiceException", base |-> "unreached"],
     wms_Exception |-> [v13 |-> "Exception", v111 |-> "Exception", base |-> "unreached"],
     wms_111_only |-> [v13 |-> "not WMS", v111 |-> "capabilities", base |-> "capabilities"],
     base_HTTPError |-> [v13 |-> "capabilities", v111 |-> "capabilities", base |-> "HTTPError"],
     base_URLError |-> [v13 |-> "capabilities", v111 |-> "capabilities", base |-> "URLError"],
     base_timeout |-> [v13 |-> "capabilities", v111 |-> "capabilities", base |-> "timeout"],
     base_HTTPException |-> [v13 |-> "capabilities", v111 |-> "capabilities", base |-> "HTTPException"],
     base_empty |-> [v13 |-> "capabilities", v111 |-> "capabilities", base |-> "empty"],
     base_XMLSyntaxError |-> [v13 |-> "capabilities", v111 |-> "capabilities", base |-> "XMLSyntaxError"],
     base_not_WMS |-> [v13 |-> "capabilities", v111 |-> "capabilities", base |-> "not WMS"],
     base_ServiceException |-> [v13 |-> "capabilities", v111 |-> "capabilities", base |-> "ServiceException"],
     base_Exception |-> [v13 |-> "capabilities", v111 |-> "capabilities", base |-> "Exception"]]

\* The server behind the URL "page" serves a web page whatever else
\* happens; the servers behind the other URLs answer as env says.
Responses(env, url) ==
    IF url = "page"
    THEN [v13 |-> "not WMS", v111 |-> "not WMS", base |-> "unreached"]
    ELSE IF env \in DOMAIN ProbeEnvs THEN ProbeEnvs[env]
    ELSE [v13 |-> "capabilities", v111 |-> "capabilities", base |-> "capabilities"]

\* gemini_values.get('resource-locator', [])
resource_locators(doc) ==
    IF "locators" \in DOMAIN doc THEN doc.locators ELSE <<>>

\* Lines 657-679: the resource of one locator that has a URL.
Resource(url, verified, base_urls, format) ==
    [url |-> url, verified |-> verified, wms_base_urls |-> base_urls,
     format |-> format, ckan_recommended_wms_preview |-> FALSE]

locator_resource(url, env) ==
    IF _is_wms(Responses(env, url).v13, Responses(env, url).v111)
    THEN Resource(url, TRUE, _wms_base_urls(Responses(env, url).base).urls, "WMS")
    ELSE Resource(url, FALSE, {}, "None")

\* Lines 655-680: one resource per locator with a URL; "raised" when the
\* join of line 668 raises for one of them.
RECURSIVE resources(_, _, _)
resources(locators, env, acc) ==
    IF locators = <<>> THEN [raised |-> FALSE, list |-> acc]
    ELSE IF Head(locators).url = ""
    THEN resources(Tail(locators), env, acc)
    ELSE IF /\ _is_wms(Responses(env, Head(locators).url).v13,
                       Responses(env, Head(locators).url).v111)
            /\ join_raises(_wms_base_urls(Responses(env, Head(locators).url).base))
    THEN [raised |-> TRUE, list |-> acc]
    ELSE resources(Tail(locators), env,
                   Append(acc, locator_resource(Head(locators).url, env)))

First(S) == CHOOSE i \in S : \A k \in S : i <= k

\* The pick that takes the last map-service resource.
preview_index_last(rs) ==
    LET view == {i \in DOMAIN rs : rs[i].format = "WMS"}
    IN  IF view # {} THEN CHOOSE i \in view : \A k \in view : k <= i ELSE 0

\* Lines 682-688: the first verified WMS resource, else the first WMS
\* resource, else none (0).
preview_index(rs) ==
    LET verified_view_resources ==
            {i \in DOMAIN rs : rs[i].verified /\ rs[i].format = "WMS"}
        view_resources == {i \in DOMAIN rs : rs[i].format = "WMS"}
    IN  IF verified_view_resources # {} THEN First(verified_view_resources)
        ELSE IF view_resources # {} THEN First(view_resources)
        ELSE 0

recommend_preview(rs) ==
    [i \in DOMAIN rs |->
        [rs[i] EXCEPT !.ckan_recommended_wms_preview = (i = preview_index(rs))]]

\* Lines 567-753: build the package_dict, write it, move the current flag.
write_package(os, ps, o, p, reactivate, env) ==
    LET doc  == os[o].content
        res  == resources(resource_locators(doc), env, <<>>)
        dict == [package_dict(os, ps, o, p, reactivate) EXCEPT
                     !.resources = recommend_preview(res.list)]
        ps2  == _create_package_from_data(ps, dict, p)
        pid  == written_package_id(ps, p)
        dec  == IF p = NoPackage THEN "create" ELSE "update"
    IN  IF dict.name = NoName
        THEN WriteResult("abort", "none", "could not generate a unique name", os, ps, NoPackage)
        ELSE IF res.raised
        THEN WriteResult("error", "none", "TypeError in join", os, ps, NoPackage)
        ELSE IF env = "catalog"
        THEN WriteResult("abort", "none", "Validation Error", os, ps, NoPackage)
        ELSE WriteResult("ok", dec, "", mark_current(mark_not_current(os, pid), o, pid),
                         ps2, pid)

\* Lines 494-565: the guards and the staleness decision against the one
\* current harvest object l of the GUID.  kind "write" means: go on to build
\* and write package p (NoPackage: a new one).
Plan(kind, decision, msg, os, p, reactivate) ==
    [kind |-> kind, decision |-> decision, msg |-> msg, objs |-> os,
     p |-> p, reactivate |-> reactivate]

\* The guards with the unchanged-document skip ahead of the ownership guard.
reconcile_skip_before_ownership(os, ps, o, l, force, inact) ==
    LET doc == os[o].content
        p   == os[l].package_id
    IN  IF same_job_guard(os, l, o, force)
        THEN Plan("abort", "none", "already used in this harvest", os, p, FALSE)
        ELSE IF ~needs_update(os, l, o, force, inact) /\ ~contents_changed(os, l, o)
        THEN Plan("skip", "skip", "unchanged", os, p, FALSE)
        ELSE IF publisher_guard(os, ps, l, o)
        THEN IF ps[p].title # doc.title
             THEN Plan("abort", "none", "another publisher, different title", os, p, FALSE)
             ELSE Plan("abort", "none", "another publisher", os, p, FALSE)
        ELSE IF needs_update(os, l, o, force, inact)
        THEN IF ps[p].state = "deleted"
             THEN IF os[l].metadata_modified_date = NoDate
                  THEN Plan("error", "none", "TypeError", os, p, FALSE)
                  ELSE IF os[l].metadata_modified_date < os[o].metadata_modified_date
                  THEN Plan("write", "update", "", os, p, TRUE)
                  ELSE Plan("skip", "skip", "not more recent than a deleted package",
                            os, p, FALSE)
             ELSE Plan("write", "update", "", os, p, FALSE)
        ELSE Plan("abort", "none", "contents changed, metadata date not updated",
                  os, p, FALSE)

reconcile(os, ps, o, l, force, inact) ==
    LET doc == os[o].content
        p   == os[l].package_id
    IN  IF same_job_guard(os, l, o, force)
        THEN Plan("abort", "none", "already used in this harvest", os, p, FALSE)
        ELSE IF publisher_guard(os, ps, l, o)
        THEN IF ps[p].title # doc.title
             THEN Plan("abort", "none", "another publisher, different title", os, p, FALSE)
             ELSE Plan("abort", "none", "another publisher", os, p, FALSE)
        ELSE IF needs_update(os, l, o, force, inact)
        THEN IF ps[p].state = "deleted"
             THEN IF os[l].metadata_modified_date = NoDate
                  \* None < datetime raises TypeError
                  THEN Plan("error", "none", "TypeError", os, p, FALSE)
                  ELSE IF os[l].metadata_modified_date < os[o].metadata_modified_date
                  THEN Plan("write", "update", "", os, p, TRUE)
                  ELSE Plan("skip", "skip", "not more recent than a deleted package",
                            os, p, FALSE)
             ELSE Plan("write", "update", "", os, p, FALSE)
        ELSE IF contents_changed(os, l, o)
        THEN Plan("abort", "none", "contents changed, metadata date not updated",
                  os, p, FALSE)
        ELSE Plan("skip", "skip", "unchanged", os, p, FALSE)

\* The consistency check counting from three.
more_than_one_current_off_by_one(cur) == Cardinality(cur) > 2

\* elif len(last_harvested_object) > 1: raise ImportAbort('System Error: ...')
more_than_one_current(cur) == Cardinality(cur) > 1

\* Lines 431-565: extent check, reference date (saved on the harvest object),
\* history lookup, guards and decision.
gemini_plan(os, ps, o, force, inact) ==
    LET doc == os[o].content
        md  == strptime(doc.date)
        \* self.obj.metadata_modified_date = ...; self.obj.save()
        os1 == [os EXCEPT ![o].metadata_modified_date = md.value]
        cur == last_harvested_objects(os1, doc.guid)
    IN  IF ZeroArea(doc)
        THEN Plan("abort", "none", "zero area", os, NoPackage, FALSE)
        ELSE IF ~md.ok
        THEN Plan("abort", "none", "could not extract reference date", os, NoPackage, FALSE)
        ELSE IF more_than_one_current(cur)
        THEN Plan("abort", "none", "more than one current record", os1, NoPackage, FALSE)
        ELSE IF cur = {}
        THEN Plan("write", "create", "", os1, NoPackage, FALSE)
        ELSE reconcile(os1, ps, o, CHOOSE l \in cur : TRUE, force, inact)

write_package_from_gemini_string(os, ps, o, force, env, inact) ==
    LET pl == gemini_plan(os, ps, o, force, inact)
    IN  IF pl.kind = "write"
        THEN write_package(pl.objs, ps, o, pl.p, pl.reactivate, env)
        ELSE WriteResult(pl.kind, pl.decision, pl.msg, pl.objs, ps, NoPackage)

(***************************************************************************)
(* import_gemini_object and import_stage.                                   *)
(***************************************************************************)
\* to_skip: the source's 'skip-responsible-party', a single name made a list
\* The exclusion list without the wrapping of a single name into a list:
\* set() of a string is the set of its characters, which matches no name.
to_skip_unwrapped(s) ==
    LET skip == Sources[s].skip
    IN  IF skip.kind = "list" THEN skip.names ELSE {}

to_skip(s) ==
    LET skip == Sources[s].skip
    IN  IF skip.kind = "string" THEN {skip.name}
        ELSE IF skip.kind = "list" THEN skip.names
        ELSE {}

responsible_org_names(doc) == {doc.orgs[i].name : i \in DOMAIN doc.orgs}

to_skip_and_found(os, o) ==
    to_skip(ObjSource(os, o)) \cap responsible_org_names(os[o].content)

\* The validation step aborting on every invalid document, whatever the
\* reject-on-invalid setting.
validation_gate_always_abort(os, o, rej) ==
    IF to_skip_and_found(os, o) # {}
    THEN Plan("skip", "skip", "responsible party", os, NoPackage, FALSE)
    ELSE IF os[o].content.valid THEN Plan("pass", "none", "", os, NoPackage, FALSE)
    ELSE Plan("abort", "none", "validation", os, NoPackage, FALSE)

\* Lines 379-411: the responsible-party skip, then validation.  kind "pass"
\* means: go on to write_package_from_gemini_string.
validation_gate(os, o, rej) ==
    LET doc == os[o].content
    IN  IF to_skip_and_found(os, o) # {}
        THEN Plan("skip", "skip", "responsible party", os, NoPackage, FALSE)
        ELSE IF doc.valid THEN Plan("pass", "none", "", os, NoPackage, FALSE)
        ELSE IF rej THEN Plan("abort", "none", "validation", os, NoPackage, FALSE)
        ELSE Plan("pass", "none", "",
                  _save_object_error(os, o, "nonfatal", "validation errors, not aborted"),
                  NoPackage, FALSE)

\* The result says how the call ended: "return", or "abort" (ImportAbort) or
\* "error" (any other exception) with the message, and the store it leaves.
import_gemini_object(os, ps, o, force, env, inact, rej) ==
    LET g == validation_gate(os, o, rej)
        w == write_package_from_gemini_string(g.objs, ps, o, force, env, inact)
    IN  IF g.kind # "pass"
        THEN WriteResult(IF g.kind = "skip" THEN "return" ELSE g.kind,
                         g.decision, g.msg, g.objs, ps, NoPackage)
        ELSE IF w.kind = "ok"
        THEN \* update_coupled_resources(package, harvest_source_reference)
             IF env # "coupled" THEN [w EXCEPT !.kind = "return"]
             ELSE [w EXCEPT !.kind = "error", !.msg = "update_coupled_resources"]
        ELSE IF w.kind = "skip" THEN [w EXCEPT !.kind = "return"]
        ELSE w

\* What the except clauses of import_stage save for an ImportAbort or another
\* exception, and what the call then returns: it falls off the end (None).
import_failed(res, o) ==
    [res EXCEPT !.objs = _save_object_error(@, o,
                             IF res.kind = "abort" THEN "abort" ELSE "system", res.msg)]

\* The return value is also kept on the harvest object, as the queue does.
import_return(res, o, ret) ==
    [kind |-> res.kind, decision |-> res.decision, msg |-> res.msg,
     objs |-> [res.objs EXCEPT ![o].ret = ret], pkgs |-> res.pkgs,
     pid |-> res.pid, ret |-> ret]

\* import_stage: what it returns ("True", "False", or "None" when it falls
\* off the end after recording an error) and the store it leaves.
import_stage(os, ps, o, force, env, inact, rej) ==
    IF os[o].content = NoContent
    THEN import_return(WriteResult("empty", "none", "Empty content",
                                   _save_object_error(os, o, "empty", "Empty content"),
                                   ps, NoPackage), o, "False")
    ELSE CHOOSE x \in
           { IF r.kind = "return" THEN import_return(r, o, "True")
             ELSE import_return(import_failed(r, o), o, "None") :
               r \in {import_gemini_object(os, ps, o, force, env, inact, rej)} } : TRUE

(***************************************************************************)
(* The initial store: empty, or holding one legacy record harvested before  *)
(* metadata_modified_date was recorded (the case line 529 provides for).    *)
(***************************************************************************)
NoOp == [op |-> "none"]

Idle == [pc |-> "idle"]

LegacyDoc == MkDoc("g1", "t1", "b1", PlainDate(1), "ok", TRUE, OrgsPlain)

LegacyObjs ==
    << [HarvestObject("g1", 1, LegacyDoc) EXCEPT
            !.current = TRUE, !.package_id = 1, !.ret = "True"] >>

LegacyPkgs ==
    << [title |-> "t1", notes |-> "b1", owner_org |-> "A", state |-> "active",
        name |-> PackageName("t1", 0), guid |-> "g1", harvest_object_id |-> 1,
        metadata_date |-> 1, resources |-> <<>>,
        extras |-> {[key |-> "theme-primary", value |-> "Environment"]}] >>

LegacyJobs == << [source |-> "s1", gather_errors |-> <<>>] >>

Init ==
    /\ \/ objs = <<>> /\ pkgs = <<>> /\ jobs = <<>>
       \/ objs = LegacyObjs /\ pkgs = LegacyPkgs /\ jobs = LegacyJobs
    /\ inactive = {}
    /\ reject = FALSE
    /\ reimports = 0
    /\ externals = 0
    /\ last = NoOp
    /\ procs = [c \in {1, 2} |-> Idle]

(***************************************************************************)
(* Gather stages.  The job is created and its gather stage run in one step: *)
(* a gather only adds harvest objects with current = False, so it commutes  *)
(* with every import of another object.                                     *)
(***************************************************************************)
FetchFailures ==
    {[failure |-> f] : f \in {"GetContentError", "Exception", "blank", "no guid",
                              "Error parsing the document"}}

NewJob(s) == [source |-> s, gather_errors |-> <<>>]

\* The harvest object of the single document saved without its content.
doc_harvest_object_unpopulated(r, j) == HarvestObject(r.guid, j, NoContent)

\* obj = HarvestObject(guid=gemini_guid, job=harvest_job, content=gemini_string, ...)
doc_harvest_object(r, j) == HarvestObject(r.guid, j, r)

\* GeminiDocHarvester.gather_stage; r is what fetching the source URL gives:
\* a document, or one of the failures: _get_content raising GetContentError
\* or failing otherwise, blank content (get_gemini_string_and_guid records
\* its own error before the caller's), no GUID in the document, or an
\* exception while parsing or saving.
DocGather(s, r, limit) ==
    /\ Len(jobs) < MaxJobs
    /\ LET j == Len(jobs) + 1
           js == Append(jobs, NewJob(s))
       IN  IF r \in FetchFailures
           THEN /\ jobs' = (IF r.failure = "blank"
                            THEN _save_gather_error(_save_gather_error(js, j, r.failure), j,
                                                    "Could not get the GUID")
                            ELSE _save_gather_error(js, j, r.failure))
                /\ objs' = objs
                /\ last' = [op |-> "gather", harvester |-> "doc", job |-> j,
                            ids |-> <<>>, ret |-> "None", input |-> r]
           ELSE /\ Len(objs) < limit
                /\ jobs' = js
                /\ objs' = Append(objs, doc_harvest_object(r, j))
                /\ last' = [op |-> "gather", harvester |-> "doc", job |-> j,
                            ids |-> <<Len(objs) + 1>>, ret |-> "ids", input |-> r]
    /\ UNCHANGED <<pkgs, inactive, reject, reimports, externals, procs>>

\* GeminiWafHarvester.gather_stage; files are the documents behind the
\* links of the index page, in page order.
WafGather(s, files, limit) ==
    /\ Len(jobs) < MaxJobs
    /\ Len(objs) + Len(files) <= limit
    /\ LET j == Len(jobs) + 1
           js == Append(jobs, NewJob(s))
           new == [i \in 1..Len(files) |-> HarvestObject(files[i].guid, j, files[i])]
       IN  IF files = <<>>
           THEN /\ jobs' = _save_gather_error(js, j, "Couldn't find any links to metadata files")
                /\ objs' = objs
                /\ last' = [op |-> "gather", harvester |-> "waf", job |-> j,
                            ids |-> <<>>, ret |-> "None"]
           ELSE /\ jobs' = js
                /\ objs' = objs \o new
                /\ last' = [op |-> "gather", harvester |-> "waf", job |-> j,
                            ids |-> [i \in 1..Len(files) |-> Len(objs) + i],
                            ret |-> "ids"]
    /\ UNCHANGED <<pkgs, inactive, reject, reimports, externals, procs>>

(***************************************************************************)
(* Import stage, the whole handler.  Unforced: the queue hands each         *)
(* gathered object to import_stage once.  Forced: harvest_objects_import    *)
(* sets force_import and hands over an object already in the table.         *)
(***************************************************************************)
\* What the collaborators do during one import: "ok", or the catalog
\* answers the write with a ValidationError ("catalog"), or
\* update_coupled_resources raises ("coupled").
Envs == {"ok", "catalog", "coupled"}

EnvFailed(r, env) ==
    \/ env = "catalog" /\ r.msg = "Validation Error"
    \/ env = "coupled" /\ r.msg = "update_coupled_resources"

\* The import of o gets as far as line 661 for a locator that has a URL.
ProbesRun(o, force) ==
    /\ objs[o].content # NoContent
    /\ \E g \in {validation_gate(objs, o, reject)} :
         /\ g.kind = "pass"
         /\ \E pl \in {gemini_plan(g.objs, pkgs, o, force, inactive)} :
              /\ pl.kind = "write"
              /\ package_dict(pl.objs, pkgs, o, pl.p, pl.reactivate).name # NoName
    /\ \E i \in DOMAIN resource_locators(objs[o].content) :
         resource_locators(objs[o].content)[i].url \notin {"", "page"}

Import(o, force, env) ==
    /\ o \in DOMAIN objs
    /\ IF force THEN reimports < MaxReimports /\ objs[o].ret # "pending"
                ELSE objs[o].ret = "pending"
    /\ \E r \in {import_stage(objs, pkgs, o, force, env, inactive, reject)} :
           /\ env # "ok" =>
                  /\ externals < MaxExternal
                  /\ \/ EnvFailed(r, env)
                     \/ env \in DOMAIN ProbeEnvs /\ ProbesRun(o, force)
           /\ objs' = r.objs
           /\ pkgs' = r.pkgs
           /\ last' = [op |-> "import", obj |-> o, force |-> force, kind |-> r.kind,
                       decision |-> r.decision, msg |-> r.msg, ret |-> r.ret,
                       env |-> env]
    /\ reimports' = IF force THEN reimports + 1 ELSE reimports
    /\ externals' = IF env = "ok" THEN externals ELSE externals + 1
    /\ UNCHANGED <<jobs, inactive, reject, procs>>

(***************************************************************************)
(* What users do from outside the harvester.                                *)
(***************************************************************************)
DeletePackage(p) ==
    /\ externals < MaxExternal
    /\ p \in DOMAIN pkgs
    /\ pkgs[p].state = "active"
    /\ pkgs' = [pkgs EXCEPT ![p].state = "deleted"]
    /\ externals' = externals + 1
    /\ last' = [op |-> "delete", pid |-> p]
    /\ UNCHANGED <<objs, jobs, inactive, reject, reimports, procs>>

DeactivateSource(s) ==
    /\ externals < MaxExternal
    /\ s \notin inactive
    /\ \E j \in DOMAIN jobs : jobs[j].source = s
    /\ inactive' = inactive \cup {s}
    /\ externals' = externals + 1
    /\ last' = [op |-> "deactivate", source |-> s]
    /\ UNCHANGED <<objs, pkgs, jobs, reject, reimports, procs>>

ReconSources == {"s1", "s2"}

WafFiles(D) == {<<>>} \cup UNION {[1..n -> D] : n \in 1..MaxWafLinks}

Next ==
    \/ \E s \in ReconSources, r \in FetchFailures \cup Docs : DocGather(s, r, MaxObjs)
    \/ \E s \in ReconSources, files \in WafFiles(Docs) : WafGather(s, files, MaxObjs)
    \/ \E o \in DOMAIN objs, force \in BOOLEAN, env \in Envs : Import(o, force, env)
    \/ \E p \in DOMAIN pkgs : DeletePackage(p)
    \/ \E s \in SourceIds : DeactivateSource(s)

Spec == Init /\ [][Next]_vars

(***************************************************************************)
(* The gate specification: single-document harvests of every document of    *)
(* GateDocs from every source, under both settings of                       *)
(* ckan.spatial.validator.reject.                                           *)
(***************************************************************************)
InitGate ==
    /\ objs = <<>> /\ pkgs = <<>> /\ jobs = <<>>
    /\ inactive = {}
    /\ reject \in BOOLEAN
    /\ reimports = 0
    /\ externals = 0
    /\ last = NoOp
    /\ procs = [c \in {1, 2} |-> Idle]

NextGate ==
    \/ \E s \in SourceIds, r \in GateDocs : DocGather(s, r, MaxGateObjs)
    \/ \E o \in DOMAIN objs, force \in BOOLEAN, env \in Envs : Import(o, force, env)
    \/ \E p \in DOMAIN pkgs : DeletePackage(p)

SpecGate == InitGate /\ [][NextGate]_vars

(***************************************************************************)
(* The concurrent specification: two queue consumers run import_stage at    *)
(* the same time, each on its own harvest object.  One step per database    *)
(* interaction of write_package_from_gemini_string: the history lookup with *)
(* the decision taken on it (lines 481-565), the package write (716-722),   *)
(* the committed bulk update (729-734) and the save of the harvest object   *)
(* as current (744-748).  No lock or transaction spans these steps.         *)
(***************************************************************************)
Consumers == {1, 2}

Busy(o) == \E c \in Consumers : procs[c].pc # "idle" /\ procs[c].obj = o

InitConc ==
    /\ \E s \in ReconSources, d1, d2 \in Docs :
          /\ jobs = <<NewJob("s1"), NewJob(s)>>
          /\ objs = <<HarvestObject(d1.guid, 1, d1), HarvestObject(d2.guid, 2, d2)>>
    /\ pkgs = <<>>
    /\ inactive = {}
    /\ reject = FALSE
    /\ reimports = 0
    /\ externals = 0
    /\ last = NoOp
    /\ procs = [c \in Consumers |-> Idle]

\* import_stage up to the decision.  When nothing is to be written the call
\* ends here, as in the sequential import.
ConcBegin(c, o) ==
    /\ procs[c].pc = "idle"
    /\ o \in DOMAIN objs /\ objs[o].ret = "pending" /\ ~Busy(o)
    /\ \E g \in {validation_gate(objs, o, reject)} :
       \E pl \in {IF g.kind = "pass" THEN gemini_plan(g.objs, pkgs, o, FALSE, inactive) ELSE g} :
          IF pl.kind = "write"
          THEN /\ objs' = pl.objs
               /\ procs' = [procs EXCEPT ![c] = [pc |-> "write", obj |-> o, p |-> pl.p,
                                                  reactivate |-> pl.reactivate,
                                                  pid |-> NoPackage]]
               /\ last' = last
          ELSE \E r \in {import_stage(objs, pkgs, o, FALSE, "ok", inactive, reject)} :
               /\ objs' = r.objs
               /\ procs' = procs
               /\ last' = [op |-> "import", obj |-> o, force |-> FALSE, kind |-> r.kind,
                           decision |-> r.decision, msg |-> r.msg, ret |-> r.ret]
    /\ UNCHANGED <<pkgs, jobs, inactive, reject, reimports, externals>>

\* _create_package_from_data (lines 716-722)
ConcWrite(c) ==
    /\ procs[c].pc = "write"
    /\ pkgs' = _create_package_from_data(pkgs,
                   package_dict(objs, pkgs, procs[c].obj, procs[c].p, procs[c].reactivate),
                   procs[c].p)
    /\ procs' = [procs EXCEPT ![c].pc = "not_current",
                              ![c].pid = written_package_id(pkgs, procs[c].p)]
    /\ UNCHANGED <<objs, jobs, inactive, reject, reimports, externals, last>>

\* The step to the final save without the bulk update having been run.
ConcMarkNotCurrentSkipped(c) ==
    /\ procs[c].pc = "not_current"
    /\ procs' = [procs EXCEPT ![c].pc = "current"]
    /\ UNCHANGED <<objs, pkgs, jobs, inactive, reject, reimports, externals, last>>

\* Session.execute(u, ...); Session.commit() (lines 729-734)
ConcMarkNotCurrent(c) ==
    /\ procs[c].pc = "not_current"
    /\ objs' = mark_not_current(objs, procs[c].pid)
    /\ procs' = [procs EXCEPT ![c].pc = "current"]
    /\ UNCHANGED <<pkgs, jobs, inactive, reject, reimports, externals, last>>

\* self.obj.current = True; self.obj.save(); ...; return True (lines 744-753)
ConcMarkCurrent(c) ==
    /\ procs[c].pc = "current"
    /\ objs' = [mark_current(objs, procs[c].obj, procs[c].pid)
                   EXCEPT ![procs[c].obj].ret = "True"]
    /\ procs' = [procs EXCEPT ![c] = Idle]
    /\ last' = [op |-> "import", obj |-> procs[c].obj, force |-> FALSE, kind |-> "return",
                decision |-> IF procs[c].p = NoPackage THEN "create" ELSE "update",
                msg |-> "", ret |-> "True"]
    /\ UNCHANGED <<pkgs, jobs, inactive, reject, reimports, externals>>

NextConc ==
    \/ \E c \in Consumers, o \in DOMAIN objs : ConcBegin(c, o)
    \/ \E c \in Consumers : ConcWrite(c)
    \/ \E c \in Consumers : ConcMarkNotCurrent(c)
    \/ \E c \in Consumers : ConcMarkCurrent(c)

SpecConc == InitConc /\ [][NextConc]_vars

(***************************************************************************)
(* Vocabulary of the properties.  A step is an import of o when it leaves   *)
(* the record of that import in `last'; the collaborators are well when     *)
(* neither the catalog refused the write nor update_coupled_resources       *)
(* raised.                                                                  *)
(***************************************************************************)
Guids == {"g1", "g2"}

IsImport(o, force) ==
    /\ o \in DOMAIN objs
    /\ last'.op = "import" /\ last'.obj = o /\ last'.force = force
    /\ IF force THEN reimports' = reimports + 1
                ELSE objs[o].ret = "pending" /\ objs'[o].ret # "pending"

CollaboratorsOk == last'.msg \notin {"Validation Error", "update_coupled_resources"}

\* The document's own fields and the source's configuration, read directly.
Excluded(o) ==
    LET skip  == Sources[jobs[objs[o].job].source].skip
        names == {objs[o].content.orgs[i].name : i \in DOMAIN objs[o].content.orgs}
    IN  \/ skip.kind = "string" /\ skip.name \in names
        \/ skip.kind = "list" /\ skip.names \cap names # {}

DegenerateExtent(o) ==
    /\ objs[o].content.rtype # "nonGeographicDataset"
    /\ \/ objs[o].content.north = objs[o].content.south
       \/ objs[o].content.east = objs[o].content.west

PassesValidation(o) == objs[o].content.valid \/ ~reject

PassesGates(o) ==
    /\ ~Excluded(o)
    /\ PassesValidation(o)
    /\ ~DegenerateExtent(o)
    /\ objs[o].content.date.kind \in {"date", "datetime"}

Rejected(o) ==
    /\ last'.ret # "True"
    /\ Len(objs'[o].errors) > Len(objs[o].errors)
    /\ objs'[o].errors[Len(objs'[o].errors)].kind \in {"abort", "system"}

CurrentFlagsUnchanged ==
    \A i \in DOMAIN objs : objs'[i].current = objs[i].current

PackagesOf(ps, g) == {p \in DOMAIN ps : ps[p].guid = g}

(***************************************************************************)
(* C1.  After any sequence of gathers and imports processed one at a time   *)
(* (any jobs, forced or not, any outcome), every GUID has at most one       *)
(* harvest object with current = True.                                      *)
(***************************************************************************)
C1_CurrentInvariant ==
    \A g \in Guids : Cardinality(last_harvested_objects(objs, g)) <= 1

\* An update has just moved the current flag from an older harvest object of
\* the GUID to the one imported.
C1_Witness ==
    /\ last.op = "import" /\ last.decision = "update" /\ last.ret = "True"
    /\ objs[last.obj].current
    /\ \E i \in DOMAIN objs :
          /\ i # last.obj /\ objs[i].guid = objs[last.obj].guid
          /\ objs[i].package_id = objs[last.obj].package_id
          /\ ~objs[i].current

(***************************************************************************)
(* C2.  Idempotence.  The same unchanged document imported in two jobs of   *)
(* one publisher's sources, starting from no history for its GUID: the      *)
(* first import creates the entry, the second is skipped and writes         *)
(* nothing, and exactly one catalog entry exists for the GUID afterwards.   *)
(* (The first job's source is still active and the collaborators are well.) *)
(***************************************************************************)
NoHistory(o) ==
    \A i \in DOMAIN objs : i # o => objs[i].guid # objs[o].content.guid

SecondOf(o, first) ==
    /\ first \in DOMAIN objs /\ first # o
    /\ objs[first].content = objs[o].content
    /\ objs[first].job # objs[o].job
    /\ objs[first].current /\ objs[first].ret = "True"
    /\ objs[first].metadata_modified_date # NoDate
    /\ \A i \in DOMAIN objs : objs[i].guid = objs[o].content.guid => i \in {first, o}
    /\ Sources[ObjSource(objs, first)].publisher_id = Sources[ObjSource(objs, o)].publisher_id
    /\ ObjSource(objs, first) \notin inactive

C2_Idempotence ==
    [][\A o \in DOMAIN objs :
         /\ (IsImport(o, FALSE) /\ NoHistory(o) /\ PassesGates(o) /\ CollaboratorsOk)
              => /\ last'.decision = "create" /\ last'.ret = "True"
                 /\ Cardinality(PackagesOf(pkgs', objs[o].content.guid)) = 1
         /\ \A first \in DOMAIN objs :
              (IsImport(o, FALSE) /\ SecondOf(o, first))
              => /\ last'.decision = "skip" /\ last'.ret = "True"
                 /\ pkgs' = pkgs
                 /\ objs'[o].errors = objs[o].errors
                 /\ Cardinality(PackagesOf(pkgs', objs[o].content.guid)) = 1
    ]_vars

\* The second import of the same document has just been skipped, and the
\* entry the first import created is the only one of the GUID.
C2_Witness ==
    /\ last.op = "import" /\ last.decision = "skip" /\ last.msg = "unchanged"
    /\ \E first \in DOMAIN objs :
          /\ first # last.obj
          /\ objs[first].content = objs[last.obj].content
          /\ objs[first].job # objs[last.obj].job
          /\ objs[first].current /\ objs[first].ret = "True"
          /\ objs[first].package_id \in DOMAIN pkgs
          /\ pkgs[objs[first].package_id].harvest_object_id = first
    /\ Cardinality(PackagesOf(pkgs, objs[last.obj].guid)) = 1

(***************************************************************************)
(* C3.  Monotonic metadata date.  A is the current attempt of a GUID, with  *)
(* a stored metadata date, an entry that is not deleted and belongs to the  *)
(* publisher of the importing source, and an active source; B is imported   *)
(* from a later job without force and the collaborators are well.           *)
(*   - B's date strictly later than A's: the entry is updated from B.       *)
(*   - B's date equal to A's: skipped when the content is equal, rejected   *)
(*     with "contents changed" when it differs.                             *)
(*   - B's date earlier than A's: skipped, whatever the content.            *)
(***************************************************************************)
DocDate(o) == strptime(objs[o].content.date).value

LaterAttempt(o, a) ==
    /\ IsImport(o, FALSE) /\ PassesGates(o) /\ CollaboratorsOk
    /\ last_harvested_objects(objs, objs[o].content.guid) = {a}
    /\ objs[a].job < objs[o].job
    /\ objs[a].metadata_modified_date # NoDate
    /\ objs[a].package_id \in DOMAIN pkgs
    /\ pkgs[objs[a].package_id].state # "deleted"
    /\ pkgs[objs[a].package_id].owner_org = Sources[ObjSource(objs, o)].publisher_id
    /\ ObjSource(objs, a) \notin inactive

UpdatedFrom(o, a) ==
    /\ last'.decision = "update" /\ last'.ret = "True"
    /\ objs'[o].current /\ ~objs'[a].current
    /\ objs'[o].package_id = objs[a].package_id
    /\ pkgs'[objs[a].package_id].title = objs[o].content.title
    /\ pkgs'[objs[a].package_id].notes = objs[o].content.body
    /\ pkgs'[objs[a].package_id].harvest_object_id = o

SkippedKeeping(o, a) ==
    /\ last'.decision = "skip" /\ last'.ret = "True"
    /\ pkgs' = pkgs /\ CurrentFlagsUnchanged
    /\ objs'[o].errors = objs[o].errors

RejectedContentsChanged(o, a) ==
    /\ last'.msg = "contents changed, metadata date not updated"
    /\ Rejected(o)
    /\ pkgs' = pkgs /\ CurrentFlagsUnchanged

ZeroAreaRejected(o) ==
    /\ Rejected(o)
    /\ last'.decision = "none"
    /\ ~objs'[o].current
    /\ pkgs' = pkgs /\ CurrentFlagsUnchanged
    /\ PassesValidation(o) => last'.msg = "zero area"

C4_ZeroAreaRejected ==
    [][\A o \in DOMAIN objs : \A force \in BOOLEAN :
         (/\ IsImport(o, force)
          /\ objs[o].content # NoContent
          /\ DegenerateExtent(o)
          /\ ~Excluded(o))
         => ZeroAreaRejected(o)
    ]_vars

\* C4 as the claim words it: every zero-area document is rejected, whatever
\* the configuration.
C4_AsStated ==
    [][\A o \in DOMAIN objs : \A force \in BOOLEAN :
         (/\ IsImport(o, force)
          /\ objs[o].content # NoContent
          /\ DegenerateExtent(o))
         => ZeroAreaRejected(o)
    ]_vars

\* A valid document with east = west has just been rejected for its extent
\* although the GUID already has a current attempt and an entry.
C4_Witness ==
    /\ last.op = "import" /\ last.msg = "zero area" /\ last.ret = "None"
    /\ objs[last.obj].content.east = objs[last.obj].content.west
    /\ objs[last.obj].content.north # objs[last.obj].content.south
    /\ ~objs[last.obj].current
    /\ \E a \in DOMAIN objs : a # last.obj /\ objs[a].current
                               /\ objs[a].guid = objs[last.obj].guid

(***************************************************************************)
(* C5.  Exclusion precedes validation.  When a responsible organisation of  *)
(* the document is on the source's exclusion list (one name or a list of    *)
(* names), every import returns as a skip before validation: no error is    *)
(* recorded, not even for an invalid document under reject-on-invalid, no   *)
(* date is stored, no entry is written and no attempt becomes current.      *)
(***************************************************************************)
C5_ExclusionPrecedesValidation ==
    [][\A o \in DOMAIN objs : \A force \in BOOLEAN :
         (/\ IsImport(o, force)
          /\ objs[o].content # NoContent
          /\ Excluded(o))
         => /\ last'.decision = "skip" /\ last'.msg = "responsible party"
            /\ last'.ret = "True"
            /\ objs' = [objs EXCEPT ![o].ret = "True"]
            /\ pkgs' = pkgs
    ]_vars

\* An invalid document of an excluded organisation has just been skipped
\* without an error although invalid documents are to be rejected.
C5_Witness ==
    /\ last.op = "import" /\ last.msg = "responsible party" /\ last.ret = "True"
    /\ reject
    /\ ~objs[last.obj].content.valid
    /\ objs[last.obj].errors = <<>>
    /\ Sources[ObjSource(objs, last.obj)].skip.kind = "string"

(***************************************************************************)
(* C6.  Same-job duplicate.  When the current attempt of the document's     *)
(* GUID belongs to the job of the attempt imported (two attempts of one     *)
(* job sharing the GUID, imported one after the other) and the document     *)
(* passes the earlier checks, an unforced import is rejected with "already  *)
(* used in this harvest", writes nothing, and the first attempt stays       *)
(* current.  A forced import is never rejected with that message: it goes   *)
(* on, and updates the entry when the entry is not deleted and the          *)
(* collaborators are well.                                                  *)
(***************************************************************************)
SameJobCurrent(o, first) ==
    /\ first \in DOMAIN objs
    /\ PassesGates(o)
    /\ objs[first].job = objs[o].job
    /\ last_harvested_objects(objs, objs[o].content.guid) = {first}

C6_SameJobDuplicate ==
    [][\A o \in DOMAIN objs : \A first \in DOMAIN objs :
         /\ (IsImport(o, FALSE) /\ first # o /\ SameJobCurrent(o, first))
              => /\ last'.msg = "already used in this harvest"
                 /\ Rejected(o)
                 /\ pkgs' = pkgs /\ CurrentFlagsUnchanged
                 /\ objs'[first].current /\ ~objs'[o].current
         /\ (IsImport(o, TRUE) /\ SameJobCurrent(o, first))
              => /\ last'.msg # "already used in this harvest"
                 /\ (pkgs[objs[first].package_id].state # "deleted" /\ CollaboratorsOk)
                       => /\ last'.decision = "update" /\ last'.ret = "True"
                          /\ objs'[o].current
                          /\ first # o => ~objs'[first].current
    ]_vars

\* The second attempt of a job was rejected as a duplicate, and its forced
\* reimport has now passed the guard and taken the current flag.
C6_Witness ==
    /\ last.op = "import" /\ last.force /\ last.decision = "update"
    /\ objs[last.obj].current
    /\ \E e \in DOMAIN objs[last.obj].errors :
          objs[last.obj].errors[e].msg = "already used in this harvest"
    /\ \E first \in DOMAIN objs :
          /\ first # last.obj /\ objs[first].job = objs[last.obj].job
          /\ objs[first].guid = objs[last.obj].guid
          /\ ~objs[first].current /\ objs[first].ret = "True"

(***************************************************************************)
(* C7.  Publisher collision.  When the entry of the GUID's current attempt  *)
(* is not deleted, its owner differs from the publisher of the importing    *)
(* source, and its title differs from the document's, every import of a     *)
(* document that passes the earlier checks is rejected with the "another    *)
(* publisher, different title" message; the entry and every current flag    *)
(* stay as they were.                                                       *)
(***************************************************************************)
OwnedByAnother(o, a) ==
    /\ PassesGates(o)
    /\ last_harvested_objects(objs, objs[o].content.guid) = {a}
    /\ objs[a].package_id \in DOMAIN pkgs
    /\ pkgs[objs[a].package_id].owner_org # Sources[ObjSource(objs, o)].publisher_id

C7_PublisherCollision ==
    [][\A o \in DOMAIN objs : \A a \in DOMAIN objs : \A force \in BOOLEAN :
         (/\ IsImport(o, force) /\ OwnedByAnother(o, a)
          /\ pkgs[objs[a].package_id].state # "deleted"
          /\ pkgs[objs[a].package_id].title # objs[o].content.title)
         => /\ last'.msg = "another publisher, different title"
            /\ Rejected(o)
            /\ pkgs' = pkgs
            /\ CurrentFlagsUnchanged
            /\ last_harvested_objects(objs', objs[o].content.guid) = {a}
    ]_vars

\* A document of publisher B with another title has just been rejected; the
\* entry of publisher A is as its current attempt wrote it.
C7_Witness ==
    /\ last.op = "import" /\ last.msg = "another publisher, different title"
    /\ last.ret = "None"
    /\ ~objs[last.obj].current
    /\ \E a \in DOMAIN objs :
          /\ objs[a].current /\ objs[a].guid = objs[last.obj].guid
          /\ pkgs[objs[a].package_id].owner_org = "A"
          /\ Sources[ObjSource(objs, last.obj)].publisher_id = "B"
          /\ pkgs[objs[a].package_id].title = objs[a].content.title
          /\ pkgs[objs[a].package_id].title # objs[last.obj].content.title
          /\ pkgs[objs[a].package_id].harvest_object_id = a

(***************************************************************************)
(* C8.  No automatic transfer of an entry that is not deleted.  No import   *)
(* changes the owner of an entry that is not deleted; and whenever the      *)
(* entry of the GUID's current attempt is not deleted and its owner differs *)
(* from the publisher of the importing source, the import writes nothing,   *)
(* whatever the dates and the force flag are.                               *)
(***************************************************************************)
C8_NoTransferUnlessDeleted ==
    [][/\ \A p \in DOMAIN pkgs :
            (last'.op = "import" /\ pkgs[p].state # "deleted")
            => pkgs'[p].owner_org = pkgs[p].owner_org
       /\ \A o \in DOMAIN objs : \A a \in DOMAIN objs : \A force \in BOOLEAN :
            (/\ IsImport(o, force) /\ OwnedByAnother(o, a)
             /\ pkgs[objs[a].package_id].state # "deleted")
            => /\ pkgs' = pkgs /\ CurrentFlagsUnchanged
               /\ Rejected(o)
               /\ last'.msg \in {"another publisher", "another publisher, different title"}
    ]_vars

\* C8 as the claim words it: no import changes the owner of an existing
\* entry, whatever the state of the entry.
C8_AsStated ==
    [][\A p \in DOMAIN pkgs :
          last'.op = "import" => pkgs'[p].owner_org = pkgs[p].owner_org
    ]_vars

\* A forced import from publisher B with the title of A's entry and a later
\* date has just been rejected as a publisher change.
C8_Witness ==
    /\ last.op = "import" /\ last.force /\ last.msg = "another publisher"
    /\ \E a \in DOMAIN objs :
          /\ objs[a].current /\ objs[a].guid = objs[last.obj].guid
          /\ pkgs[objs[a].package_id].owner_org
                # Sources[ObjSource(objs, last.obj)].publisher_id
          /\ pkgs[objs[a].package_id].state = "active"
          /\ pkgs[objs[a].package_id].title = objs[last.obj].content.title
          /\ objs[a].metadata_modified_date < strptime(objs[last.obj].content.date).value

(***************************************************************************)
(* C9.  Single-document harvest.  Gathering a document records one attempt  *)
(* with the document's GUID and content and no gather error.  Importing it  *)
(* when the document is valid, passes the exclusion, extent and date        *)
(* checks, its GUID has no current attempt and the collaborators are well   *)
(* creates one new catalog entry from the document, makes the attempt       *)
(* current and links it to the entry, returns True, and records no error    *)
(* against the attempt or the job.                                          *)
(***************************************************************************)
SingleDocJob(o) ==
    \A i \in DOMAIN objs : objs[i].job = objs[o].job => i = o

C9_SingleDocCreate ==
    [][/\ (last'.op = "gather" /\ Len(objs') = Len(objs) + 1)
            => /\ last'.ids = <<Len(objs')>>
               /\ objs'[Len(objs')].guid = objs'[Len(objs')].content.guid
               /\ objs'[Len(objs')].job = last'.job
               /\ ~objs'[Len(objs')].current
               /\ jobs'[last'.job].gather_errors = <<>>
       /\ \A o \in DOMAIN objs :
            (/\ IsImport(o, FALSE) /\ SingleDocJob(o)
             /\ PassesGates(o) /\ objs[o].content.valid
             /\ last_harvested_objects(objs, objs[o].content.guid) = {}
             /\ CollaboratorsOk)
            => /\ last'.decision = "create" /\ last'.ret = "True"
               /\ Len(pkgs') = Len(pkgs) + 1
               /\ \A p \in DOMAIN pkgs : pkgs'[p] = pkgs[p]
               /\ pkgs'[Len(pkgs')].guid = objs[o].content.guid
               /\ pkgs'[Len(pkgs')].title = objs[o].content.title
               /\ pkgs'[Len(pkgs')].state = "active"
               /\ pkgs'[Len(pkgs')].owner_org = Sources[ObjSource(objs, o)].publisher_id
               /\ pkgs'[Len(pkgs')].harvest_object_id = o
               /\ objs'[o].current /\ objs'[o].package_id = Len(pkgs')
               /\ last_harvested_objects(objs', objs[o].content.guid) = {o}
               /\ objs'[o].errors = <<>>
               /\ jobs'[objs[o].job].gather_errors = <<>>
    ]_vars

\* The only attempt of a job has just been imported as a create: it is
\* current, linked to the new entry, and nothing carries an error.
C9_Witness ==
    /\ last.op = "import" /\ last.decision = "create" /\ last.ret = "True"
    /\ objs[last.obj].current /\ objs[last.obj].ret = "True"
    /\ objs[last.obj].package_id \in DOMAIN pkgs
    /\ pkgs[objs[last.obj].package_id].harvest_object_id = last.obj
    /\ objs[last.obj].errors = <<>>
    /\ jobs[objs[last.obj].job].gather_errors = <<>>
    /\ \A i \in DOMAIN objs : objs[i].job = objs[last.obj].job => i = last.obj

(***************************************************************************)
(* C10.  Two imports running concurrently on attempts of one GUID never     *)
(* leave both attempts current: no two distinct attempts of a GUID are      *)
(* current at the same time.                                                *)
(***************************************************************************)
C10_ConcurrentImportsOneCurrent ==
    \A i \in DOMAIN objs : \A j \in DOMAIN objs :
        (i # j /\ objs[i].current /\ objs[j].current) => objs[i].guid # objs[j].guid

(***************************************************************************)
(* One consumer taking an import through its database round trips, where    *)
(* the process can die between any two of them.                             *)
(***************************************************************************)
Worker == {1}

\* The consumer is killed inside write_package_from_gemini_string: what it
\* has committed stays, the rest of the call never runs.
Crash(c) ==
    /\ procs[c].pc # "idle"
    /\ objs' = [objs EXCEPT ![procs[c].obj].ret = "crashed"]
    /\ procs' = [procs EXCEPT ![c] = Idle]
    /\ last' = [op |-> "crash", obj |-> procs[c].obj, pc |-> procs[c].pc]
    /\ UNCHANGED <<pkgs, jobs, inactive, reject, reimports, externals>>

NextSteps ==
    \/ \E c \in Worker, o \in DOMAIN objs : ConcBegin(c, o)
    \/ \E c \in Worker : ConcWrite(c)
    \/ \E c \in Worker : ConcMarkNotCurrent(c)
    \/ \E c \in Worker : ConcMarkCurrent(c)
    \/ \E c \in Worker : Crash(c)

SpecSteps == InitConc /\ [][NextSteps]_vars

(***************************************************************************)
(* C11.  Within one import the attempts linked to the written entry are     *)
(* marked not current, and that is committed, before the new attempt is     *)
(* marked current: when the import is about to mark its attempt current no  *)
(* attempt linked to the entry is current, and in every state of the        *)
(* import, also when the process dies between the steps, at most one        *)
(* attempt linked to an entry is current.                                   *)
(***************************************************************************)
CurrentOfEntry(p) == {i \in DOMAIN objs : objs[i].package_id = p /\ objs[i].current}

C11_NoDoubleCurrentWindow ==
    /\ \A p \in DOMAIN pkgs : Cardinality(CurrentOfEntry(p)) <= 1
    /\ \A c \in Worker :
          procs[c].pc = "current" => CurrentOfEntry(procs[c].pid) = {}

\* The process died after the un-flagging was committed and before the new
\* attempt was flagged: the updated entry is left with no current attempt.
C11_Witness ==
    /\ last.op = "crash" /\ last.pc = "current"
    /\ objs[last.obj].ret = "crashed" /\ ~objs[last.obj].current
    /\ \E a \in DOMAIN objs :
          /\ a # last.obj /\ objs[a].ret = "True" /\ ~objs[a].current
          /\ objs[a].package_id \in DOMAIN pkgs
          /\ pkgs[objs[a].package_id].harvest_object_id = last.obj
          /\ CurrentOfEntry(objs[a].package_id) = {}

(***************************************************************************)
(* C12.  Every import that fails returns without raising, records exactly   *)
(* one error of the import stage on the attempt imported and on nothing     *)
(* else, and leaves the packages, the jobs and every other attempt as they  *)
(* were, so that the imports that follow find the store as if the failed    *)
(* attempt had not been processed.                                          *)
(***************************************************************************)
ImportErrors(errs) ==
    {e \in DOMAIN errs : errs[e].kind \in {"abort", "system", "empty"}}

FailedImport(o) ==
    /\ \E force \in BOOLEAN : IsImport(o, force)
    /\ last'.kind # "return"

C12_FailureIsolated ==
    [][\A o \in DOMAIN objs :
         FailedImport(o) =>
            /\ last'.ret \in {"False", "None"}
            /\ Cardinality(ImportErrors(objs'[o].errors))
                  = Cardinality(ImportErrors(objs[o].errors)) + 1
            /\ \A i \in DOMAIN objs : i # o => objs'[i] = objs[i]
            /\ objs'[o].current = objs[o].current
            /\ objs'[o].package_id = objs[o].package_id
            /\ pkgs' = pkgs
            /\ jobs' = jobs
    ]_vars

(***************************************************************************)
(* C13.  import_stage returns True when the outcome is create, update or    *)
(* skip, and returns False whenever it records an error: empty content, an  *)
(* ImportAbort, or any other exception raised during the import.            *)
(***************************************************************************)
C13_ReturnValue ==
    [][\A o \in DOMAIN objs : \A force \in BOOLEAN :
         IsImport(o, force) =>
            IF Cardinality(ImportErrors(objs'[o].errors))
                 > Cardinality(ImportErrors(objs[o].errors))
            THEN last'.ret = "False"
            ELSE last'.ret = "True" /\ last'.decision \in {"create", "update", "skip"}
    ]_vars

(***************************************************************************)
(* C14.  For every attempt passed to import_stage, forced or not: after an  *)
(* outcome of create or update the attempt is current, and after an         *)
(* outcome of skip the attempt is not current.                              *)
(***************************************************************************)
C14_CurrentFollowsOutcome ==
    [][\A o \in DOMAIN objs : \A force \in BOOLEAN :
         IsImport(o, force) =>
            /\ last'.decision \in {"create", "update"} => objs'[o].current
            /\ last'.decision = "skip" => ~objs'[o].current
    ]_vars

(***************************************************************************)
(* C15.  Reject and skip are told apart and neither touches the catalog.    *)
(* An import rejected by an ImportAbort records exactly one error on the    *)
(* attempt and does not return True; a skipped import returns True and      *)
(* records no error except, for an invalid document that is not to be       *)
(* rejected, the one validation diagnostic.  After either, every package    *)
(* and the current flag of every attempt are as before the import.          *)
(***************************************************************************)
Diagnostics(errs) == {e \in DOMAIN errs : errs[e].kind = "nonfatal"}

C15_RejectAndSkip ==
    [][\A o \in DOMAIN objs : \A force \in BOOLEAN :
         IsImport(o, force) =>
            /\ last'.kind = "abort" =>
                  /\ last'.decision # "skip" /\ last'.ret # "True"
                  /\ Cardinality(ImportErrors(objs'[o].errors))
                        = Cardinality(ImportErrors(objs[o].errors)) + 1
                  /\ objs'[o].errors[Len(objs'[o].errors)] = ObjectError("abort", last'.msg)
                  /\ pkgs' = pkgs /\ CurrentFlagsUnchanged
            /\ last'.decision = "skip" =>
                  /\ last'.kind = "return" /\ last'.ret = "True"
                  /\ ImportErrors(objs'[o].errors) = ImportErrors(objs[o].errors)
                  /\ Cardinality(Diagnostics(objs'[o].errors))
                        = Cardinality(Diagnostics(objs[o].errors))
                          + (IF objs[o].content.valid \/ Excluded(o) THEN 0 ELSE 1)
                  /\ pkgs' = pkgs /\ CurrentFlagsUnchanged
    ]_vars

\* An invalid document equal to the current one has just been skipped: the
\* attempt carries the diagnostic alone, while an attempt rejected earlier
\* carries an error, and the entry belongs to the attempt that created it.
C15_Witness ==
    /\ last.op = "import" /\ last.decision = "skip" /\ last.msg = "unchanged"
    /\ Len(objs[last.obj].errors) = 1
    /\ objs[last.obj].errors[1].kind = "nonfatal"
    /\ ~objs[last.obj].current
    /\ \E a \in DOMAIN objs :
          /\ a # last.obj /\ objs[a].current
          /\ pkgs[objs[a].package_id].harvest_object_id = a

(***************************************************************************)
(* A store that holds two current attempts of one GUID: two attempts of     *)
(* one WAF job imported by two consumers at once, and then a second job     *)
(* gathered and imported.                                                   *)
(***************************************************************************)
LaterDocs ==
    { MkDoc("g1", "t1", "b1", PlainDate(2), "ok", TRUE, OrgsPlain),
      MkDoc("g2", "t1", "b1", PlainDate(1), "ok", TRUE, OrgsPlain) }

InitRace ==
    /\ \E d1, d2 \in {MkDoc("g1", "t1", "b1", PlainDate(1), "ok", TRUE, OrgsPlain)} :
          objs = <<HarvestObject(d1.guid, 1, d1), HarvestObject(d2.guid, 1, d2)>>
    /\ jobs = <<NewJob("s1")>>
    /\ pkgs = <<>>
    /\ inactive = {}
    /\ reject = FALSE
    /\ reimports = 0
    /\ externals = 0
    /\ last = NoOp
    /\ procs = [c \in Consumers |-> Idle]

NextRace ==
    \/ NextConc
    \/ \E s \in ReconSources, f1, f2 \in LaterDocs :
          /\ \A i \in DOMAIN objs : objs[i].ret # "pending"
          /\ WafGather(s, <<f1, f2>>, MaxObjs + MaxWafLinks)
    \/ \E o \in DOMAIN objs, force \in BOOLEAN, env \in Envs :
          ~Busy(o) /\ Import(o, force, env)

SpecRace == InitRace /\ [][NextRace]_vars

(***************************************************************************)
(* C16.  When more than one attempt of the document's GUID is current, the  *)
(* import of a document that passes the earlier checks is rejected with     *)
(* the "more than one current record" system error: no package is created   *)
(* or updated and no current flag changes.  The attempts of the job that    *)
(* follow are imported as usual: one whose GUID has no current attempt      *)
(* creates its entry.                                                       *)
(***************************************************************************)
CurrentOfGuid(g) == {i \in DOMAIN objs : objs[i].guid = g /\ objs[i].current}

C16_MoreThanOneCurrent ==
    [][\A o \in DOMAIN objs : \A force \in BOOLEAN :
         /\ (/\ IsImport(o, force) /\ PassesGates(o)
              /\ Cardinality(CurrentOfGuid(objs[o].content.guid)) > 1
              /\ \A c \in Consumers : procs[c].pc = "idle")
             => /\ last'.kind = "abort"
                /\ last'.msg = "more than one current record"
                /\ Rejected(o)
                /\ pkgs' = pkgs /\ CurrentFlagsUnchanged
         /\ (/\ IsImport(o, force) /\ PassesGates(o) /\ CollaboratorsOk
              /\ CurrentOfGuid(objs[o].content.guid) = {}
              /\ \A c \in Consumers : procs[c].pc = "idle")
             => /\ last'.decision = "create" /\ last'.ret = "True"
                /\ objs'[o].current
    ]_vars

\* In a job whose first attempt was rejected for the two current records
\* of its GUID, the next attempt has just created its entry.
C16_Witness ==
    /\ last.op = "import" /\ last.decision = "create" /\ last.ret = "True"
    /\ objs[last.obj].guid = "g2"
    /\ Cardinality(CurrentOfGuid("g1")) = 2
    /\ \E i \in DOMAIN objs :
          /\ i < last.obj /\ objs[i].job = objs[last.obj].job
          /\ objs[i].guid = "g1" /\ ~objs[i].current /\ objs[i].ret = "None"
          /\ objs[i].errors = <<ObjectError("abort", "more than one current record")>>

(***************************************************************************)
(* C17.  A document that is not excluded by its responsible party and       *)
(* fails validation: with reject-on-invalid set, the import is rejected     *)
(* with the validation abort as its only new error, before reconciliation   *)
(* (no date stored on the attempt, no package and no current flag           *)
(* changed); with it unset, exactly one non-fatal diagnostic is recorded    *)
(* on the attempt and the import goes on to reconciliation, where it        *)
(* creates the entry when the GUID has no current attempt and updates it    *)
(* when forced over the one current attempt.                                *)
(***************************************************************************)
FailsValidation(o) ==
    /\ objs[o].content # NoContent
    /\ ~Excluded(o)
    /\ ~objs[o].content.valid

ValidationRejected(o) ==
    /\ last'.kind = "abort" /\ last'.msg = "validation" /\ last'.decision = "none"
    /\ last'.ret # "True"
    /\ objs'[o].errors = Append(objs[o].errors, ObjectError("abort", "validation"))
    /\ objs'[o].metadata_modified_date = objs[o].metadata_modified_date
    /\ pkgs' = pkgs /\ CurrentFlagsUnchanged

ValidationDiagnosed(o) ==
    /\ Len(objs'[o].errors) > Len(objs[o].errors)
    /\ objs'[o].errors[Len(objs[o].errors) + 1]
          = ObjectError("nonfatal", "validation errors, not aborted")
    /\ Cardinality(Diagnostics(objs'[o].errors))
          = Cardinality(Diagnostics(objs[o].errors)) + 1
    /\ last'.msg # "validation"

C17_Validation ==
    [][\A o \in DOMAIN objs : \A force \in BOOLEAN :
         (IsImport(o, force) /\ FailsValidation(o)) =>
            /\ reject => ValidationRejected(o)
            /\ ~reject =>
                  /\ ValidationDiagnosed(o)
                  /\ (/\ PassesGates(o) /\ CollaboratorsOk
                       /\ CurrentOfGuid(objs[o].content.guid) = {})
                      => /\ last'.decision = "create" /\ last'.ret = "True"
                         /\ objs'[o].current
                         /\ objs'[o].metadata_modified_date = DocDate(o)
                  /\ \A a \in DOMAIN objs :
                        (/\ force /\ PassesGates(o) /\ CollaboratorsOk
                         /\ CurrentOfGuid(objs[o].content.guid) = {a}
                         /\ objs[a].package_id \in DOMAIN pkgs
                         /\ pkgs[objs[a].package_id].state # "deleted"
                         /\ pkgs[objs[a].package_id].owner_org
                               = Sources[ObjSource(objs, o)].publisher_id)
                        => /\ last'.decision = "update" /\ last'.ret = "True"
                           /\ objs'[o].current
    ]_vars

\* With reject-on-invalid unset, an invalid document has just created its
\* entry; the attempt carries the diagnostic and nothing else.
C17_Witness ==
    /\ ~reject
    /\ last.op = "import" /\ last.decision = "create" /\ last.ret = "True"
    /\ ~objs[last.obj].content.valid
    /\ objs[last.obj].current
    /\ objs[last.obj].errors
          = <<ObjectError("nonfatal", "validation errors, not aborted")>>

(***************************************************************************)
(* C18.  An import that passes the earlier checks and finds one current     *)
(* attempt of its GUID, from another job unless forced, whose package is    *)
(* not deleted and belongs to the source's publisher, decides update if     *)
(* and only if the prior attempt has no date, or its date is strictly       *)
(* earlier than the document's, or the import is forced, or the dates are   *)
(* equal and the prior attempt's source is inactive.                        *)
(***************************************************************************)
PriorLive(o, a, force) ==
    /\ PassesGates(o)
    /\ CurrentOfGuid(objs[o].content.guid) = {a}
    /\ (objs[a].job # objs[o].job \/ force)
    /\ objs[a].package_id \in DOMAIN pkgs
    /\ pkgs[objs[a].package_id].state # "deleted"
    /\ pkgs[objs[a].package_id].owner_org = Sources[ObjSource(objs, o)].publisher_id

UpdateWarranted(o, a, force) ==
    \/ objs[a].metadata_modified_date = NoDate
    \/ objs[a].metadata_modified_date < DocDate(o)
    \/ force
    \/ /\ objs[a].metadata_modified_date = DocDate(o)
       /\ jobs[objs[a].job].source \in inactive

C18_UpdateIff ==
    [][\A o \in DOMAIN objs : \A a \in DOMAIN objs : \A force \in BOOLEAN :
         (IsImport(o, force) /\ PriorLive(o, a, force) /\ CollaboratorsOk)
         => /\ (last'.decision = "update") <=> UpdateWarranted(o, a, force)
            /\ last'.decision = "update" =>
                  /\ last'.ret = "True" /\ objs'[o].current
                  /\ objs'[o].package_id = objs[a].package_id
    ]_vars

\* An unforced import has just updated the entry of an attempt with the same
\* date whose source is inactive.
C18_Witness ==
    /\ last.op = "import" /\ ~last.force
    /\ last.decision = "update" /\ last.ret = "True"
    /\ \E a \in DOMAIN objs :
          /\ a # last.obj /\ objs[a].guid = objs[last.obj].guid
          /\ objs[a].package_id = objs[last.obj].package_id
          /\ objs[a].metadata_modified_date = objs[last.obj].metadata_modified_date
          /\ objs[a].ret = "True" /\ ~objs[a].current
          /\ jobs[objs[a].job].source \in inactive

(***************************************************************************)
(* C19.  An unforced import whose document carries the same metadata date   *)
(* as the one current attempt of its GUID, that attempt coming from another *)
(* job and from a source that is active: when the two contents differ the   *)
(* import is rejected with "contents changed, metadata date not updated",   *)
(* when they are identical it is skipped; either way no package and no      *)
(* current flag changes.                                                    *)
(***************************************************************************)
EqualDateActive(o, a) ==
    /\ PassesGates(o)
    /\ CurrentOfGuid(objs[o].content.guid) = {a}
    /\ objs[a].job # objs[o].job
    /\ objs[a].package_id \in DOMAIN pkgs
    /\ \/ pkgs[objs[a].package_id].owner_org = Sources[ObjSource(objs, o)].publisher_id
       \/ pkgs[objs[a].package_id].state = "deleted"
    /\ objs[a].metadata_modified_date = DocDate(o)
    /\ jobs[objs[a].job].source \notin inactive

C19_EqualDates ==
    [][\A o \in DOMAIN objs : \A a \in DOMAIN objs :
         (IsImport(o, FALSE) /\ EqualDateActive(o, a))
         => /\ objs[o].content # objs[a].content =>
                  /\ last'.kind = "abort"
                  /\ last'.msg = "contents changed, metadata date not updated"
                  /\ objs'[o].errors = Append(objs[o].errors,
                        ObjectError("abort", "contents changed, metadata date not updated"))
                  /\ last'.ret # "True" /\ ~objs'[o].current
            /\ objs[o].content = objs[a].content =>
                  /\ last'.kind = "return" /\ last'.decision = "skip"
                  /\ last'.ret = "True" /\ ~objs'[o].current
                  /\ objs'[o].errors = objs[o].errors
            /\ pkgs' = pkgs /\ CurrentFlagsUnchanged
            /\ objs'[a] = objs[a]
    ]_vars

\* A document with the date of the current attempt and another body has
\* just been rejected; the current attempt and its live package stay.
C19_Witness ==
    /\ last.op = "import" /\ ~last.force /\ last.kind = "abort"
    /\ last.msg = "contents changed, metadata date not updated"
    /\ ~objs[last.obj].current
    /\ \E a \in DOMAIN objs :
          /\ objs[a].current /\ objs[a].guid = objs[last.obj].guid
          /\ objs[a].job # objs[last.obj].job
          /\ objs[a].metadata_modified_date = objs[last.obj].metadata_modified_date
          /\ objs[a].content.body # objs[last.obj].content.body
          /\ jobs[objs[a].job].source \notin inactive
          /\ pkgs[objs[a].package_id].state = "active"
          /\ pkgs[objs[a].package_id].notes = objs[a].content.body

(***************************************************************************)
(* C20.  An import that passes the earlier checks and finds the one current *)
(* attempt of its GUID on a deleted package: it updates and reactivates the *)
(* package if and only if the document's date is strictly later than the    *)
(* prior attempt's date; with an equal or earlier date, with no prior date, *)
(* or forced without a later date, it is skipped and the package stays      *)
(* deleted.  (Unforced, with equal dates, an active prior source and        *)
(* different contents, the contents check of C19 decides instead.)          *)
(***************************************************************************)
PriorDeleted(o, a, force) ==
    /\ PassesGates(o)
    /\ CurrentOfGuid(objs[o].content.guid) = {a}
    /\ (objs[a].job # objs[o].job \/ force)
    /\ objs[a].package_id \in DOMAIN pkgs
    /\ pkgs[objs[a].package_id].state = "deleted"

StrictlyLater(o, a) ==
    /\ objs[a].metadata_modified_date # NoDate
    /\ objs[a].metadata_modified_date < DocDate(o)

DecidedByContents(o, a, force) ==
    /\ ~force
    /\ objs[a].metadata_modified_date = DocDate(o)
    /\ jobs[objs[a].job].source \notin inactive
    /\ objs[o].content # objs[a].content

C20_DeletedEntry ==
    [][\A o \in DOMAIN objs : \A a \in DOMAIN objs : \A force \in BOOLEAN :
         (IsImport(o, force) /\ PriorDeleted(o, a, force) /\ CollaboratorsOk)
         => IF StrictlyLater(o, a)
            THEN /\ last'.decision = "update" /\ last'.ret = "True"
                 /\ pkgs'[objs[a].package_id].state = "active"
            ELSE \/ DecidedByContents(o, a, force)
                 \/ /\ last'.decision = "skip" /\ last'.ret = "True"
                    /\ pkgs'[objs[a].package_id].state = "deleted"
    ]_vars

(***************************************************************************)
(* The gather stages in detail.  GeminiCswHarvester.gather_stage: the       *)
(* client is set up, then csw.getidentifiers yields identifiers one by one  *)
(* (None for a blank one) and ends normally or by raising; saving the       *)
(* harvest object of one identifier may raise.  Harvest objects are saved   *)
(* as they are made, so those made before a failure stay in the table.      *)
(* DEBUG is not set in the environment (debug_exception_mode is False).     *)
(***************************************************************************)
CswIds == {"g1", "g2", "null"}

CswItem == [id : CswIds, save : {"ok", "fails"}]

CswEnumerations == UNION {[1..n -> CswItem] : n \in 0..MaxCswItems}

CswEndings == {"done", "URLError", "Exception"}

InSeq(x, seq) == \E k \in DOMAIN seq : seq[k] = x

\* The loop without the test of used_identifiers.
RECURSIVE csw_identifiers_no_dedup(_, _, _)
csw_identifiers_no_dedup(items, used_identifiers, acc) ==
    IF items = <<>> THEN acc
    ELSE LET identifier == Head(items).id
         IN  IF identifier = "null"
             THEN csw_identifiers_no_dedup(Tail(items), used_identifiers, acc)
             ELSE IF Head(items).save = "fails"
             THEN csw_identifiers_no_dedup(Tail(items), used_identifiers,
                      [acc EXCEPT !.errors = Append(@, "Error for the identifier")])
             ELSE csw_identifiers_no_dedup(Tail(items), Append(used_identifiers, identifier),
                      [acc EXCEPT !.guids = Append(@, identifier)])

\* for identifier in self.csw.getidentifiers(page=25): ... (lines 1071-1100).
\* acc.guids: the harvest objects saved, in order; acc.errors: the gather
\* errors saved for single identifiers.
RECURSIVE csw_identifiers(_, _, _)
csw_identifiers(items, used_identifiers, acc) ==
    IF items = <<>> THEN acc
    ELSE LET identifier == Head(items).id
         IN  IF InSeq(identifier, used_identifiers)
             THEN csw_identifiers(Tail(items), used_identifiers, acc)
             ELSE IF identifier = "null"
             THEN csw_identifiers(Tail(items), used_identifiers, acc)
             ELSE IF Head(items).save = "fails"
             THEN csw_identifiers(Tail(items), used_identifiers,
                      [acc EXCEPT !.errors = Append(@, "Error for the identifier")])
             ELSE csw_identifiers(Tail(items), Append(used_identifiers, identifier),
                      [acc EXCEPT !.guids = Append(@, identifier)])

RECURSIVE save_gather_errors(_, _, _)
save_gather_errors(js, j, msgs) ==
    IF msgs = <<>> THEN js
    ELSE save_gather_errors(_save_gather_error(js, j, Head(msgs)), j, Tail(msgs))

GatherRecord(harvester, j, ids, input) ==
    [op |-> "gather", harvester |-> harvester, job |-> j, ids |-> ids,
     ret |-> IF ids = <<>> THEN "None" ELSE "ids", input |-> input]

CswGather(s, setup, items, ending) ==
    /\ Len(jobs) < MaxJobs
    /\ LET j   == Len(jobs) + 1
           js  == Append(jobs, NewJob(s))
           r   == csw_identifiers(items, <<>>, [guids |-> <<>>, errors |-> <<>>])
           new == [i \in 1..Len(r.guids) |-> HarvestObject(r.guids[i], j, NoContent)]
           ids == [i \in 1..Len(r.guids) |-> Len(objs) + i]
           js1 == save_gather_errors(js, j, r.errors)
           input == [setup |-> setup, items |-> items, ending |-> ending]
       IN  IF setup = "fails"
           THEN /\ jobs' = _save_gather_error(js, j, "Error contacting the CSW server")
                /\ objs' = objs
                /\ last' = GatherRecord("csw", j, <<>>, input)
           ELSE IF ending = "URLError"
           THEN /\ jobs' = _save_gather_error(js1, j,
                              "URL Error gathering the identifiers from the CSW server")
                /\ objs' = objs \o new
                /\ last' = GatherRecord("csw", j, <<>>, input)
           ELSE IF ending = "Exception"
           THEN /\ jobs' = _save_gather_error(js1, j,
                              "System Error gathering the identifiers from the CSW server")
                /\ objs' = objs \o new
                /\ last' = GatherRecord("csw", j, <<>>, input)
           ELSE IF Len(ids) = 0
           THEN /\ jobs' = _save_gather_error(js1, j, "No records received from the CSW server")
                /\ objs' = objs
                /\ last' = GatherRecord("csw", j, <<>>, input)
           ELSE /\ jobs' = js1
                /\ objs' = objs \o new
                /\ last' = GatherRecord("csw", j, ids, input)
    /\ UNCHANGED <<pkgs, inactive, reject, reimports, externals, procs>>

(***************************************************************************)
(* The gather specification: jobs of the three harvesters gathered into a   *)
(* table that already holds the harvest object of an earlier job, under     *)
(* every outcome of the remote server.                                      *)
(***************************************************************************)
InitGather ==
    /\ objs = LegacyObjs /\ pkgs = LegacyPkgs /\ jobs = LegacyJobs
    /\ inactive = {}
    /\ reject = FALSE
    /\ reimports = 0
    /\ externals = 0
    /\ last = NoOp
    /\ procs = [c \in {1, 2} |-> Idle]

\* GeminiDocHarvester.fetch_stage and GeminiWafHarvester.fetch_stage:
\* return True.
FetchStage(o) ==
    /\ o \in DOMAIN objs
    /\ last' = [op |-> "fetch", obj |-> o, ret |-> "True"]
    /\ UNCHANGED <<objs, pkgs, jobs, inactive, reject, reimports, externals, procs>>

MaxGatherObjs == 4

\* Vocabulary of the gather properties: the step is a gather of the given
\* harvester, and the harvest objects it added.
IsGather(harvester) == last'.op = "gather" /\ last'.harvester = harvester

Added == SubSeq(objs', Len(objs) + 1, Len(objs'))

TableKept == Len(objs') >= Len(objs) /\ \A i \in DOMAIN objs : objs'[i] = objs[i]

NewGatherErrors == jobs'[last'.job].gather_errors

(***************************************************************************)
(* C21.  A CSW gather whose enumeration completes and in which no save      *)
(* fails adds exactly one pending harvest object, without content, for      *)
(* each distinct non-null identifier enumerated, ordered by the first       *)
(* occurrence of the identifiers; repeated and null identifiers add         *)
(* nothing; the ids returned are those of the objects added, in order.      *)
(***************************************************************************)
Enumerated(items) == {items[k].id : k \in DOMAIN items} \ {"null"}

FirstSeen(items, g) == CHOOSE k \in DOMAIN items :
                          items[k].id = g /\ \A m \in 1..(k - 1) : items[m].id # g

CswCompletes ==
    /\ IsGather("csw")
    /\ last'.input.setup = "ok" /\ last'.input.ending = "done"
    /\ \A k \in DOMAIN last'.input.items : last'.input.items[k].save = "ok"

C21_CswOnePerIdentifier ==
    [][CswCompletes =>
         LET items == last'.input.items
         IN  /\ TableKept
             /\ Len(Added) = Cardinality(Enumerated(items))
             /\ {Added[i].guid : i \in DOMAIN Added} = Enumerated(items)
             /\ \A m, n \in DOMAIN Added :
                   m < n => FirstSeen(items, Added[m].guid) < FirstSeen(items, Added[n].guid)
             /\ \A i \in DOMAIN Added :
                   /\ Added[i].job = last'.job /\ Added[i].ret = "pending"
                   /\ Added[i].content = NoContent /\ ~Added[i].current
             /\ last'.ids = [i \in DOMAIN Added |-> Len(objs) + i]
    ]_vars

\* The enumeration g2, g1, g2 has just been gathered: two objects, g2
\* before g1.
C21_Witness ==
    /\ last.op = "gather" /\ last.harvester = "csw" /\ last.ret = "ids"
    /\ last.input.ending = "done"
    /\ Len(last.input.items) = 3
    /\ last.input.items[1].id = "g2" /\ last.input.items[2].id = "g1"
    /\ last.input.items[3].id = "g2"
    /\ Len(last.ids) = 2
    /\ objs[last.ids[1]].guid = "g2" /\ objs[last.ids[2]].guid = "g1"

(***************************************************************************)
(* C22.  CSW gather, failures.  When the server cannot be contacted, when   *)
(* the enumeration raises, or when it ends without any harvest object made, *)
(* exactly one job-level gather error is recorded (the last of the job) and *)
(* no ids are returned.  When handling one identifier fails, one gather     *)
(* error is recorded for it, that occurrence makes no harvest object, and   *)
(* the identifiers after it are handled as usual.                           *)
(***************************************************************************)
CswJobLevel ==
    {"Error contacting the CSW server",
     "URL Error gathering the identifiers from the CSW server",
     "System Error gathering the identifiers from the CSW server",
     "No records received from the CSW server"}

Positions(seq, S) == {k \in DOMAIN seq : seq[k] \in S}

\* The occurrences whose handling fails: not null, not made before, save raises.
FailedHandlings(items) ==
    {k \in DOMAIN items :
        /\ items[k].id # "null" /\ items[k].save = "fails"
        /\ \A m \in 1..(k - 1) : ~(items[m].id = items[k].id /\ items[m].save = "ok")}

SavedIdentifiers(items) ==
    {items[k].id : k \in {m \in DOMAIN items : items[m].id # "null" /\ items[m].save = "ok"}}

OneJobLevelError(msg) ==
    /\ Cardinality(Positions(NewGatherErrors, CswJobLevel)) = 1
    /\ NewGatherErrors[Len(NewGatherErrors)] = msg
    /\ last'.ret = "None" /\ last'.ids = <<>>

C22_CswFailures ==
    [][IsGather("csw") =>
         LET in == last'.input
         IN  /\ TableKept
             /\ in.setup = "fails" =>
                   /\ NewGatherErrors = <<"Error contacting the CSW server">>
                   /\ OneJobLevelError("Error contacting the CSW server")
                   /\ objs' = objs
             /\ (in.setup = "ok" /\ in.ending = "URLError") =>
                   OneJobLevelError("URL Error gathering the identifiers from the CSW server")
             /\ (in.setup = "ok" /\ in.ending = "Exception") =>
                   OneJobLevelError("System Error gathering the identifiers from the CSW server")
             /\ (in.setup = "ok" /\ in.ending = "done" /\ SavedIdentifiers(in.items) = {}) =>
                   /\ OneJobLevelError("No records received from the CSW server")
                   /\ objs' = objs
             /\ in.setup = "ok" =>
                   /\ Cardinality(Positions(NewGatherErrors, {"Error for the identifier"}))
                         = Cardinality(FailedHandlings(in.items))
                   /\ {Added[i].guid : i \in DOMAIN Added} = SavedIdentifiers(in.items)
                   /\ Len(Added) = Cardinality(SavedIdentifiers(in.items))
             /\ (in.setup = "ok" /\ in.ending = "done" /\ SavedIdentifiers(in.items) # {}) =>
                   /\ Positions(NewGatherErrors, CswJobLevel) = {}
                   /\ last'.ret = "ids"
                   /\ last'.ids = [i \in DOMAIN Added |-> Len(objs) + i]
    ]_vars

\* The save of g1 failed and the enumeration went on: the job carries the
\* error for g1 and the harvest object of g2, whose id is returned.
C22_Witness ==
    /\ last.op = "gather" /\ last.harvester = "csw"
    /\ Len(last.input.items) = 2
    /\ last.input.items[1] = [id |-> "g1", save |-> "fails"]
    /\ last.input.items[2] = [id |-> "g2", save |-> "ok"]
    /\ jobs[last.job].gather_errors = <<"Error for the identifier">>
    /\ Len(last.ids) = 1 /\ objs[last.ids[1]].guid = "g2"
    /\ \A i \in DOMAIN objs : objs[i].job = last.job => objs[i].guid = "g2"

(***************************************************************************)
(* C23.  The gather stage of the single-document harvester: when the fetch  *)
(* gives a document with a GUID it adds exactly one pending harvest object  *)
(* carrying the GUID and the content, returns exactly its id and records    *)
(* no gather error; on every failure it adds nothing, records at least one  *)
(* gather error and returns no ids.  The fetch stage returns True and       *)
(* changes no table.                                                        *)
(***************************************************************************)
C23_SingleDocGather ==
    [][/\ IsGather("doc") =>
            /\ TableKept
            /\ last'.input \notin FetchFailures =>
                  /\ Len(Added) = 1
                  /\ Added[1].guid = last'.input.guid
                  /\ Added[1].content = last'.input /\ Added[1].content # NoContent
                  /\ Added[1].job = last'.job
                  /\ Added[1].ret = "pending" /\ ~Added[1].current
                  /\ last'.ret = "ids" /\ last'.ids = <<Len(objs) + 1>>
                  /\ NewGatherErrors = <<>>
            /\ last'.input \in FetchFailures =>
                  /\ objs' = objs
                  /\ Len(NewGatherErrors) >= 1
                  /\ last'.ret = "None" /\ last'.ids = <<>>
       /\ last'.op = "fetch" =>
            /\ last'.ret = "True"
            /\ objs' = objs /\ pkgs' = pkgs /\ jobs' = jobs
    ]_vars

\* The fetch stage has just confirmed the harvest object of a single
\* document gathered with its content.
C23_Witness ==
    /\ last.op = "fetch" /\ last.ret = "True"
    /\ objs[last.obj].job = 2
    /\ objs[last.obj].ret = "pending"
    /\ objs[last.obj].content # NoContent
    /\ objs[last.obj].guid = objs[last.obj].content.guid
    /\ jobs[2].gather_errors = <<>>

(***************************************************************************)
(* GeminiWafHarvester in detail.  Strings are sequences of characters.  An  *)
(* index URL is the result of urlparse: the part before the path            *)
(* (scheme://netloc), the path and the query.  The index page is what       *)
(* tree.xpath('//a/@href') gives: the href values in page order.            *)
(***************************************************************************)
Hrefs ==
    { <<"r", "i", "v", "e", "r", "s", ".", "x", "m", "l">>,
      <<"/", "m", "e", "t", "a", "d", "a", "t", "a", "/", "l", "a", "k", "e", "s", ".", "x", "m", "l">>,
      <<" ", "r", "i", "v", "e", "r", "s", ".", "x", "m", "l", " ">>,
      <<"l", "a", "k", "e", "s", ".", "x", "m", "l">>,
      <<>>,
      <<" ", " ">>,
      <<"a", "?", "b">>,
      <<"a", "#", "b">>,
      <<"m", "a", "i", "l", "t", "o", ":", "a">>,
      <<"m", "a", "i", "l">>,
      <<"s", "u", "b", "/", "a">> }

IndexUrls ==
    { [site |-> "http://h", path |-> <<"/", "w", "a", "f", "/", "i", "n", "d", "e", "x", ".", "h", "t", "m", "l">>, query |-> ""],
      [site |-> "http://h", path |-> <<"/", "w", "a", "f", "/">>, query |-> "x=1"],
      [site |-> "http://h", path |-> <<>>, query |-> ""] }

WafPages == UNION {[1..n -> Hrefs] : n \in 0..MaxWafLinks}

\* url.strip()
RECURSIVE lstrip(_)
lstrip(str) == IF str # <<>> /\ Head(str) = " " THEN lstrip(Tail(str)) ELSE str

RECURSIVE rstrip(_)
rstrip(str) ==
    IF str # <<>> /\ str[Len(str)] = " " THEN rstrip(SubSeq(str, 1, Len(str) - 1)) ELSE str

strip(str) == rstrip(lstrip(str))

\* needle in str
Contains(str, needle) ==
    \E i \in 0..(Len(str) - Len(needle)) : SubSeq(str, i + 1, i + Len(needle)) = needle

\* path.rfind('/'): the index of the last slash counted from 0, or -1
rfind(str, c) ==
    IF \E k \in DOMAIN str : str[k] = c
    THEN (CHOOSE k \in DOMAIN str : str[k] = c /\ \A m \in (k + 1)..Len(str) : str[m] # c) - 1
    ELSE 0 - 1

\* str[:n], a negative n counting from the end
slice_to(str, n) ==
    IF n >= 0 THEN SubSeq(str, 1, n) ELSE SubSeq(str, 1, Len(str) + n)

\* _get_base_url: scheme://netloc + path[:last_slash] + '/'
_get_base_url(index_url) ==
    [site |-> index_url.site,
     path |-> slice_to(index_url.path, rfind(index_url.path, "/")) \o <<"/">>]

\* The link filter without the test for '#'.
link_ignored_fragment_kept(url) ==
    \/ url = <<>>
    \/ Contains(url, <<"?">>)
    \/ Contains(url, <<"/">>)
    \/ Contains(url, <<"m", "a", "i", "l", "t", "o", ":">>)

\* The tests of _extract_urls on one stripped href (lines 1367-1381).
link_ignored(url) ==
    \/ url = <<>>
    \/ Contains(url, <<"?">>)
    \/ Contains(url, <<"/">>)
    \/ Contains(url, <<"#">>)
    \/ Contains(url, <<"m", "a", "i", "l", "t", "o", ":">>)

RECURSIVE kept_links(_)
kept_links(hrefs) ==
    IF hrefs = <<>> THEN <<>>
    ELSE IF link_ignored(strip(Head(hrefs))) THEN kept_links(Tail(hrefs))
    ELSE <<strip(Head(hrefs))>> \o kept_links(Tail(hrefs))

\* return [base_url + i for i in urls]
_extract_urls(hrefs, index_url) ==
    LET urls == kept_links(hrefs)
        base_url == _get_base_url(index_url)
    IN  [i \in DOMAIN urls |-> [site |-> base_url.site, path |-> base_url.path \o urls[i]]]

\* What fetching one link of the index gives: a document with its GUID, or
\* _get_content raising GetContentError or failing otherwise, blank content
\* (get_gemini_string_and_guid records the error), a document without GUID
\* (nothing is recorded), or an exception while parsing or saving.
WafDocs == { MkDoc("g1", "t1", "b1", PlainDate(1), "ok", TRUE, OrgsPlain),
             MkDoc("g2", "t2", "b1", PlainDate(1), "ok", TRUE, OrgsPlain) }

LinkFailures ==
    {[failure |-> f] : f \in {"Unable to get WAF link", "Couldn't harvest WAF link",
                              "Content is blank/empty", "no guid",
                              "Could not get GUID for source"}}

LinkResults == WafDocs \cup LinkFailures

\* The loop over the links (lines 1279-1309): acc.docs are the documents
\* saved as harvest objects, acc.errors the gather errors.
RECURSIVE waf_links(_, _, _)
waf_links(k, results, acc) ==
    IF k > Len(results) THEN acc
    ELSE IF results[k] \in LinkFailures
    THEN waf_links(k + 1, results,
             IF results[k].failure = "no guid" THEN acc
             ELSE [acc EXCEPT !.errors = Append(@, results[k].failure)])
    ELSE waf_links(k + 1, results, [acc EXCEPT !.docs = Append(@, results[k])])

WafGuidance == "Couldn't find any links to metadata files"

\* The test of the ids collected always passing.
found_records_always(ids) == TRUE

\* if len(ids) > 0: return ids
found_records(ids) == Len(ids) > 0

\* GeminiWafHarvester.gather_stage: index is what fetching the index URL
\* gives ("ok" or the failure), page what parsing it gives ("ok" with hrefs,
\* or GatherError, or another exception), fetch the result of fetching the
\* k-th link followed.
WafGatherIndex(s, index, index_url, parse, hrefs, fetch) ==
    /\ Len(jobs) < MaxJobs
    /\ LET j       == Len(jobs) + 1
           js      == Append(jobs, NewJob(s))
           urls    == _extract_urls(hrefs, index_url)
           results == [k \in DOMAIN urls |-> fetch[k]]
           r       == waf_links(1, results, [docs |-> <<>>, errors |-> <<>>])
           new     == [i \in DOMAIN r.docs |-> HarvestObject(r.docs[i].guid, j, r.docs[i])]
           ids     == [i \in DOMAIN r.docs |-> Len(objs) + i]
           js1     == save_gather_errors(js, j, r.errors)
           input   == [index |-> index, index_url |-> index_url, parse |-> parse,
                       hrefs |-> hrefs, results |-> results, urls |-> urls]
       IN  IF index # "ok"
           THEN /\ jobs' = _save_gather_error(js, j, index)
                /\ objs' = objs
                /\ last' = GatherRecord("waf", j, <<>>, input)
           ELSE IF parse # "ok"
           THEN /\ jobs' = _save_gather_error(js, j, parse)
                /\ objs' = objs
                /\ last' = GatherRecord("waf", j, <<>>, input)
           ELSE IF found_records(ids)
           THEN /\ jobs' = js1
                /\ objs' = objs \o new
                /\ last' = GatherRecord("waf", j, ids, input)
           ELSE /\ jobs' = _save_gather_error(js1, j, WafGuidance)
                /\ objs' = objs
                /\ last' = GatherRecord("waf", j, <<>>, input)
    /\ UNCHANGED <<pkgs, inactive, reject, reimports, externals, procs>>

WafIndexFailures == {"Unable to get WAF content", "Unable to get WAF content at URL"}

WafParseFailures == {"Error extracting URLs", "System Error extracting URLs"}

NextGather ==
    \/ \E s \in ReconSources, setup \in {"ok", "fails"},
          items \in CswEnumerations, ending \in CswEndings :
          CswGather(s, setup, items, ending)
    \/ \E s \in ReconSources, r \in FetchFailures \cup GateDocs :
          DocGather(s, r, MaxGatherObjs)
    \/ \E o \in DOMAIN objs : FetchStage(o)
    \/ \E index_url \in IndexUrls, hrefs \in WafPages,
          fetch \in [1..MaxWafLinks -> LinkResults] :
          WafGatherIndex("s1", "ok", index_url, "ok", hrefs, fetch)
    \/ \E index_url \in IndexUrls, f \in WafIndexFailures :
          WafGatherIndex("s1", f, index_url, "ok", <<>>, <<>>)
    \/ \E index_url \in IndexUrls, f \in WafParseFailures :
          WafGatherIndex("s1", "ok", index_url, f, <<>>, <<>>)

SpecGather == InitGather /\ [][NextGather]_vars

(***************************************************************************)
(* C24.  From an index page that is fetched and parsed, the WAF gather      *)
(* follows exactly the hrefs that, once surrounding whitespace is removed,  *)
(* are non-empty and contain none of '/', '?', '#' and 'mailto:'; each is   *)
(* followed once, in page order, at the index URL's path up to its last     *)
(* slash plus the href.  The other hrefs are dropped and leave no gather    *)
(* error: only links that were followed can.                                *)
(***************************************************************************)
HasChar(str, c) == \E k \in DOMAIN str : str[k] = c

HasMailto(str) ==
    \E i \in 1..(Len(str) - 6) :
        /\ str[i] = "m" /\ str[i + 1] = "a" /\ str[i + 2] = "i" /\ str[i + 3] = "l"
        /\ str[i + 4] = "t" /\ str[i + 5] = "o" /\ str[i + 6] = ":"

Trimmed(str) ==
    LET solid == {k \in DOMAIN str : str[k] # " "}
    IN  IF solid = {} THEN <<>>
        ELSE SubSeq(str, CHOOSE k \in solid : \A m \in solid : k <= m,
                         CHOOSE k \in solid : \A m \in solid : k >= m)

Followable(href) ==
    /\ Trimmed(href) # <<>>
    /\ ~HasChar(href, "/") /\ ~HasChar(href, "?") /\ ~HasChar(href, "#")
    /\ ~HasMailto(href)

BasePath(path) ==
    IF HasChar(path, "/")
    THEN SubSeq(path, 1, CHOOSE k \in DOMAIN path :
                            path[k] = "/" /\ \A m \in (k + 1)..Len(path) : path[m] # "/")
    ELSE <<"/">>

WafIndexRead ==
    /\ IsGather("waf")
    /\ last'.input.index = "ok" /\ last'.input.parse = "ok"

LinkErrors == {"Unable to get WAF link", "Couldn't harvest WAF link",
               "Content is blank/empty", "Could not get GUID for source"}

C24_WafLinksFollowed ==
    [][WafIndexRead =>
         LET in  == last'.input
             sel == SelectSeq(in.hrefs, Followable)
         IN  /\ in.urls = [i \in DOMAIN sel |->
                              [site |-> in.index_url.site,
                               path |-> BasePath(in.index_url.path) \o Trimmed(sel[i])]]
             /\ Len(in.results) = Len(sel)
             /\ Len(Added) = Cardinality({k \in DOMAIN in.results : in.results[k] \in WafDocs})
             /\ Cardinality(Positions(NewGatherErrors, LinkErrors)) <= Len(sel)
             /\ (\A k \in DOMAIN in.results : in.results[k] \in WafDocs)
                   => NewGatherErrors \in {<<>>, <<WafGuidance>>}
    ]_vars

\* The index http://h/waf/index.html links to rivers.xml and to
\* /metadata/lakes.xml: only http://h/waf/rivers.xml was followed, and the
\* job has its harvest object and no gather error.
C24_Witness ==
    /\ last.op = "gather" /\ last.harvester = "waf"
    /\ last.input.index_url.path = <<"/", "w", "a", "f", "/", "i", "n", "d", "e", "x", ".", "h", "t", "m", "l">>
    /\ last.input.hrefs = <<<<"r", "i", "v", "e", "r", "s", ".", "x", "m", "l">>, <<"/", "m", "e", "t", "a", "d", "a", "t", "a", "/", "l", "a", "k", "e", "s", ".", "x", "m", "l">>>>
    /\ last.input.urls = <<[site |-> "http://h", path |-> <<"/", "w", "a", "f", "/", "r", "i", "v", "e", "r", "s", ".", "x", "m", "l">>]>>
    /\ Len(last.ids) = 1 /\ objs[last.ids[1]].job = last.job
    /\ jobs[last.job].gather_errors = <<>>

(***************************************************************************)
(* C25.  A WAF gather whose index page has no usable link records the       *)
(* guidance error about relative links as the job's only gather error,      *)
(* adds nothing and returns no ids.  The guidance error is recorded         *)
(* exactly when the index was fetched and parsed and the job made no        *)
(* harvest object: also when links were followed but none gave a document   *)
(* with a GUID.                                                             *)
(***************************************************************************)
NoUsableLink == SelectSeq(last'.input.hrefs, Followable) = <<>>

GuidanceRecorded == InSeq(WafGuidance, NewGatherErrors)

C25_WafGuidance ==
    [][IsGather("waf") =>
         /\ (WafIndexRead /\ NoUsableLink) =>
               /\ NewGatherErrors = <<WafGuidance>>
               /\ objs' = objs
               /\ last'.ret = "None" /\ last'.ids = <<>>
         /\ GuidanceRecorded <=> (WafIndexRead /\ Len(Added) = 0)
         /\ GuidanceRecorded =>
               /\ NewGatherErrors[Len(NewGatherErrors)] = WafGuidance
               /\ Cardinality(Positions(NewGatherErrors, {WafGuidance})) = 1
               /\ last'.ret = "None" /\ last'.ids = <<>>
    ]_vars

\* C25 as the claim words it: the guidance error only for an index page
\* without usable links.
C25_AsStated ==
    [][IsGather("waf") =>
         /\ (WafIndexRead /\ NoUsableLink) =>
               /\ NewGatherErrors = <<WafGuidance>>
               /\ objs' = objs
               /\ last'.ret = "None" /\ last'.ids = <<>>
         /\ GuidanceRecorded => (WafIndexRead /\ NoUsableLink)
    ]_vars

\* The index links to rivers.xml, which was followed and could not be
\* fetched: the job carries the link's error and then the guidance error.
C25_Witness ==
    /\ last.op = "gather" /\ last.harvester = "waf" /\ last.ret = "None"
    /\ Len(last.input.urls) = 1
    /\ last.input.results = <<[failure |-> "Unable to get WAF link"]>>
    /\ jobs[last.job].gather_errors = <<"Unable to get WAF link", WafGuidance>>
    /\ \A i \in DOMAIN objs : objs[i].job # last.job

(***************************************************************************)
(* The probe specification: single-document harvests of documents that      *)
(* carry resource locators, imported while the located servers answer well  *)
(* or in one of the ways of ProbeEnvs.                                      *)
(***************************************************************************)
MkLocatorDoc(guid, title, date, locators) ==
    [guid |-> guid, title |-> title, body |-> "b1", date |-> date,
     rtype |-> Extents["ok"].rtype,
     north |-> Extents["ok"].n, south |-> Extents["ok"].s,
     east |-> Extents["ok"].e, west |-> Extents["ok"].w,
     valid |-> TRUE, orgs |-> OrgsPlain, locators |-> locators]

LocatorLists ==
    { << [url |-> "u1"] >>,
      << [url |-> ""], [url |-> "u1"] >>,
      << [url |-> ""] >>,
      << [url |-> "page"], [url |-> "u1"] >>,
      << [url |-> "u1"], [url |-> "u2"] >>,
      << [url |-> "page"] >> }

LocatorDocs ==
    { MkLocatorDoc("g1", "t1", PlainDate(d), l) : d \in {1, 2}, l \in LocatorLists }

InitProbe ==
    /\ objs = <<>> /\ pkgs = <<>> /\ jobs = <<>>
    /\ inactive = {}
    /\ reject = FALSE
    /\ reimports = 0
    /\ externals = 0
    /\ last = NoOp
    /\ procs = [c \in {1, 2} |-> Idle]

NextProbe ==
    \/ \E s \in ReconSources, r \in LocatorDocs : DocGather(s, r, MaxObjs)
    \/ \E o \in DOMAIN objs, force \in BOOLEAN, env \in {"ok"} \cup DOMAIN ProbeEnvs :
           Import(o, force, env)

SpecProbe == InitProbe /\ [][NextProbe]_vars

\* The servers' answers of the import just made, read from its record.
FailedIsWms ==
    /\ last'.env \in DOMAIN ProbeEnvs
    /\ ProbeEnvs[last'.env].v13 \in ProbeFailures
    /\ ProbeEnvs[last'.env].v111 \in ProbeFailures

FailedBaseUrls ==
    /\ last'.env \in DOMAIN ProbeEnvs
    /\ ProbeEnvs[last'.env].base \in ProbeFailures

LocatedUrls(o) ==
    {objs[o].content.locators[i].url : i \in DOMAIN objs[o].content.locators} \ {""}

WrittenResources(o) ==
    LET rs == pkgs'[objs'[o].package_id].resources
    IN  {rs[i] : i \in DOMAIN rs}

\* C26: the map-service probes fail closed.  An import that probes a located
\* server which answers with a network, parse or protocol error still
\* succeeds and writes the package: when the is-map-service probe fails the
\* resource is written unverified, and when the base-endpoints probe fails
\* for a resource verified as a map service the resource is written verified
\* with an empty collection of base URLs.
C26_ProbesFailClosed ==
    [][\A o \in DOMAIN objs : \A force \in BOOLEAN :
         (IsImport(o, force) /\ (FailedIsWms \/ FailedBaseUrls))
             => /\ last'.ret = "True"
                /\ last'.decision \in {"create", "update"}
                /\ objs'[o].current
                /\ {r.url : r \in WrittenResources(o)} = LocatedUrls(o)
                /\ FailedIsWms =>
                       \A r \in WrittenResources(o) :
                           ~r.verified /\ r.format = "None" /\ r.wms_base_urls = {}
                /\ FailedBaseUrls =>
                       \A r \in WrittenResources(o) :
                           r.url # "page" =>
                               r.verified /\ r.format = "WMS" /\ r.wms_base_urls = {}]_vars

\* The part of C26 that the code keeps: a failing is-map-service probe
\* leaves the import succeeding with the resource unverified.
C26_IsWmsFailsClosed ==
    [][\A o \in DOMAIN objs : \A force \in BOOLEAN :
         (IsImport(o, force) /\ FailedIsWms)
             => /\ last'.ret = "True"
                /\ {r.url : r \in WrittenResources(o)} = LocatedUrls(o)
                /\ \A r \in WrittenResources(o) :
                       ~r.verified /\ r.format = "None" /\ r.wms_base_urls = {}]_vars

\* C27: on an update, every extra of the existing package whose key is in
\* the configured not-overwritten set is carried, with the existing value,
\* by the payload written.
C27_ExtrasNotOverwritten ==
    [][\A o \in DOMAIN objs : \A force \in BOOLEAN :
         (IsImport(o, force) /\ last'.decision = "update" /\ last'.ret = "True")
             => \A x \in pkgs[objs'[o].package_id].extras :
                    x.key \in extras_not_overwritten
                        => x \in pkgs'[objs'[o].package_id].extras]_vars

\* The package linked to the current attempts of the GUID of o.
PriorPackages(o) ==
    {objs[l].package_id : l \in CurrentOfGuid(objs[o].content.guid)}

\* C28: an import whose GUID has a prior current attempt never creates a
\* package.  When it updates, it writes the package linked to the prior
\* current attempt under that package's id, leaves every other package as it
\* is, and keeps the package's name when the title is unchanged.
C28_UpdateInPlace ==
    [][\A o \in DOMAIN objs : \A force \in BOOLEAN :
         (/\ IsImport(o, force)
          /\ objs[o].content # NoContent
          /\ CurrentOfGuid(objs[o].content.guid) # {})
             => /\ last'.decision # "create"
                /\ Len(pkgs') = Len(pkgs)
                /\ last'.decision = "update" =>
                       \E p \in PriorPackages(o) :
                           /\ \A q \in DOMAIN pkgs : q # p => pkgs'[q] = pkgs[q]
                           /\ pkgs'[p].harvest_object_id = o
                           /\ pkgs'[p].title = objs[o].content.title
                           /\ pkgs'[p].guid = pkgs[p].guid
                           /\ objs'[o].package_id = p
                           /\ pkgs[p].title = objs[o].content.title
                                  => pkgs'[p].name = pkgs[p].name]_vars

\* A later attempt of g1 with the title unchanged has updated package 1,
\* which keeps its name, beside a package of another GUID.
C28_Witness ==
    /\ last.op = "import" /\ last.decision = "update" /\ last.ret = "True"
    /\ last.obj > 1
    /\ Len(pkgs) = 2
    /\ \E p \in DOMAIN pkgs :
         /\ pkgs[p].harvest_object_id = last.obj
         /\ objs[last.obj].package_id = p
         /\ pkgs[p].title = "t1"
         /\ pkgs[p].name = PackageName("t1", 0)
         /\ pkgs[p].metadata_date = 2

(***************************************************************************)
(* _process_licence.  A string is kept as what urlparse makes of it; None   *)
(* is a value of its own.  The extras returned are licence (the free text,  *)
(* '' when there is none), licence_url and licence_url_title (None: the key *)
(* is not set); "raised" when the call ends in an exception.                *)
(***************************************************************************)
None == [none |-> TRUE]
Text(t) == [scheme |-> "", netloc |-> "", path |-> t]
Url(netloc, path) == [scheme |-> "http", netloc |-> netloc, path |-> path]
EmptyString == Text("")

\* The truth value Python gives a string or None.
Truthy(v) == v # None /\ v # EmptyString

\* _is_url: o = urlparse(licence_str); return o.scheme and o.netloc
_is_url(licence_str) == licence_str.scheme # "" /\ licence_str.netloc # ""

RECURSIVE Filter(_, _)
Filter(seq, keep_urls) ==
    IF seq = <<>> THEN <<>>
    ELSE IF _is_url(Head(seq)) = keep_urls
    THEN <<Head(seq)>> \o Filter(Tail(seq), keep_urls)
    ELSE Filter(Tail(seq), keep_urls)

LicenceExtras(licence, licence_url, licence_url_title) ==
    [raised |-> FALSE, licence |-> licence, licence_url |-> licence_url,
     licence_url_title |-> licence_url_title]

LicenceRaised == [raised |-> TRUE]

_process_licence(use_constraints, anchor_href, anchor_title) ==
    LET moved == Truthy(anchor_title) /\ use_constraints = <<>>
        constraints == IF moved THEN <<anchor_title>> ELSE use_constraints
        title == IF moved THEN None ELSE anchor_title
        anchor == IF Truthy(anchor_href) THEN <<anchor_href>> ELSE <<>>
        urls == anchor \o Filter(constraints, TRUE)
        free_text == Filter(constraints, FALSE)
    IN  IF urls = <<>>
        THEN LicenceExtras(IF free_text = <<>> THEN EmptyString ELSE free_text,
                           None, None)
        ELSE IF Len(urls) > 1 /\ free_text = <<>>
        \* extras['licence'] is '' and ''.append raises AttributeError
        THEN LicenceRaised
        ELSE LicenceExtras(IF free_text = <<>> THEN EmptyString
                           ELSE free_text \o Tail(urls),
                           Head(urls),
                           IF Truthy(anchor_href) /\ Truthy(title) THEN title ELSE None)

MaxConstraints == 2

\* Lines 588-596: the licence extras of one document.
ProcessLicence(use_constraints, anchor_href, anchor_title) ==
    /\ last' = [op |-> "licence", use_constraints |-> use_constraints,
                anchor_href |-> anchor_href, anchor_title |-> anchor_title,
                extras |-> _process_licence(use_constraints, anchor_href, anchor_title)]
    /\ UNCHANGED <<objs, pkgs, jobs, inactive, reject, reimports, externals, procs>>

\* The documents' use constraints are up to MaxConstraints values, each a
\* free text or a URL; the anchor is absent, empty or a URL, with or
\* without a title.
NextLicence ==
    LET ConstraintValues ==
            {Text("Open Government Licence"), Text("Contact the publisher"),
             Url("a.org", "/licence"), Url("b.org", "/terms")}
    IN  \E use_constraints \in UNION {[1..n -> ConstraintValues] : n \in 0..MaxConstraints},
           anchor_href \in {None, EmptyString, Url("c.org", "/ogl")},
           anchor_title \in {None, Text("OGL")} :
            ProcessLicence(use_constraints, anchor_href, anchor_title)

SpecLicence == InitProbe /\ [][NextLicence]_vars

IsLicence == last'.op = "licence"

AnchorGiven == last'.anchor_href \notin {None, EmptyString}

\* C29: when an anchor URL is given, licence_url is the anchor URL even if
\* the free-text constraints contain URLs; licence_url_title is set only
\* together with an anchor URL; when only an anchor title is given and the
\* free-text list is empty, the title is placed in the licence free text and
\* no licence_url_title is produced.
C29_Licence ==
    [][IsLicence =>
         /\ AnchorGiven =>
                /\ ~last'.extras.raised
                /\ last'.extras.licence_url = last'.anchor_href
         /\ (~last'.extras.raised /\ last'.extras.licence_url_title # None)
                => AnchorGiven
         /\ (/\ ~AnchorGiven
             /\ last'.anchor_title = Text("OGL")
             /\ last'.use_constraints = <<>>)
                => /\ ~last'.extras.raised
                   /\ last'.extras.licence = <<Text("OGL")>>
                   /\ last'.extras.licence_url_title = None]_vars

\* What the code keeps of C29: whenever the call returns, the three parts
\* of the claim hold.
C29_LicenceWhenReturned ==
    [][(IsLicence /\ ~last'.extras.raised) =>
         /\ AnchorGiven => last'.extras.licence_url = last'.anchor_href
         /\ last'.extras.licence_url_title # None => AnchorGiven
         /\ (/\ ~AnchorGiven
             /\ last'.anchor_title = Text("OGL")
             /\ last'.use_constraints = <<>>)
                => /\ last'.extras.licence = <<Text("OGL")>>
                   /\ last'.extras.licence_url_title = None]_vars

(***************************************************************************)
(* gen_new_name over a large catalog.  A munged title is a sequence of      *)
(* characters; the catalog is the set of the names that start with the      *)
(* slug, PackageName(slug, n) being the slug followed by the digits of n    *)
(* (n = 0: the slug itself; n = 101: a name that starts with the slug and   *)
(* is none of the hundred and one candidates).                              *)
(***************************************************************************)
\* name.replace('_', '-')
RECURSIVE replace_underscores(_)
replace_underscores(name) ==
    IF name = <<>> THEN <<>>
    ELSE <<IF Head(name) = "_" THEN "-" ELSE Head(name)>>
             \o replace_underscores(Tail(name))

\* while '--' in name: name = name.replace('--', '-')
RECURSIVE collapse_hyphens(_)
collapse_hyphens(name) ==
    IF Len(name) < 2 THEN name
    ELSE IF name[1] = "-" /\ name[2] = "-" THEN collapse_hyphens(Tail(name))
    ELSE <<Head(name)>> \o collapse_hyphens(Tail(name))

slug_of(munged) == collapse_hyphens(replace_underscores(munged))

MungedTitles ==
    { <<"a", "b">>, <<"a", "-", "-", "-", "b">>, <<"a", "_", "-", "b">> }

\* The names of the catalog that start with the slug: a few of the first
\* candidates, all candidates but one, all candidates, and all candidates
\* but one beside another name with the same prefix.
Candidates(slug) == {PackageName(slug, n) : n \in 0..100}

Catalogs(slug) ==
    {{PackageName(slug, n) : n \in N} : N \in SUBSET (0..3)}
        \cup {Candidates(slug) \ {PackageName(slug, k)} : k \in {0, 1, 2, 50, 99, 100}}
        \cup {Candidates(slug)}
        \cup {(Candidates(slug) \ {PackageName(slug, 0)}) \cup {PackageName(slug, 101)}}

\* Session.query(Package).filter(Package.name.ilike(like_q)).limit(100):
\* every matching name when there are at most 100, else any 100 of them
\* (the query has no ORDER BY).
LimitedQuery(matching) ==
    IF Cardinality(matching) <= 100 THEN {matching}
    ELSE {matching \ {x} : x \in matching}

\* gen_new_name, the whole method, for one answer of the query.
GenNewName(munged, catalog, taken) ==
    /\ last' = [op |-> "gen_new_name", title |-> munged, catalog |-> catalog,
                taken |-> taken,
                name |-> first_not_taken(slug_of(munged), taken)]
    /\ UNCHANGED <<objs, pkgs, jobs, inactive, reject, reimports, externals, procs>>

NextNames ==
    \E munged \in MungedTitles :
        \E catalog \in Catalogs(slug_of(munged)) :
            \E taken \in LimitedQuery(catalog) :
                GenNewName(munged, catalog, taken)

SpecNames == InitProbe /\ [][NextNames]_vars

IsGenNewName == last'.op = "gen_new_name"

\* The slug the titles of MungedTitles have.
ExpectedSlug == IF last'.title = <<"a", "b">> THEN <<"a", "b">> ELSE <<"a", "-", "b">>

InCatalog(n) == PackageName(ExpectedSlug, n) \in last'.catalog

\* C30: gen_new_name returns a name that no package of the catalog has: the
\* slug of the title if it is free, otherwise the slug followed by the
\* smallest N in 1..100 for which that name is free; it returns no name
\* exactly when the slug and slug1..slug100 are all taken.
C30_GenNewName ==
    [][IsGenNewName =>
         /\ last'.name # NoName => last'.name \notin last'.catalog
         /\ ~InCatalog(0) => last'.name = PackageName(ExpectedSlug, 0)
         /\ \A n \in 1..100 :
                (InCatalog(0) /\ ~InCatalog(n) /\ \A m \in 1..(n - 1) : InCatalog(m))
                    => last'.name = PackageName(ExpectedSlug, n)
         /\ last'.name = NoName <=> \A n \in 0..100 : InCatalog(n)]_vars

\* What the code keeps of C30: while at most 100 names of the catalog start
\* with the slug, the name returned is as the claim says.
C30_WithinQueryLimit ==
    [][(IsGenNewName /\ Cardinality(last'.catalog) <= 100) =>
         /\ last'.name # NoName /\ last'.name \notin last'.catalog
         /\ ~InCatalog(0) => last'.name = PackageName(ExpectedSlug, 0)
         /\ \A n \in 1..100 :
                (InCatalog(0) /\ ~InCatalog(n) /\ \A m \in 1..(n - 1) : InCatalog(m))
                    => last'.name = PackageName(ExpectedSlug, n)]_vars

(***************************************************************************)
(* _match_resources_with_existing_ones.  A new resource is known by its     *)
(* position in res_dicts, an existing one by its position in                *)
(* existing_resources, which is also its id.  The two for loops of          *)
(* find_matches walk unmatched_res_dicts and unmatched_existing_res_dicts   *)
(* by index, as Python's list iterator does, while the body removes         *)
(* elements from both lists.                                                *)
(***************************************************************************)
MaxNewResources == 3
MaxExistingResources == 3

ResourceKeys ==
    { [url |-> "u1", name |-> "n1", description |-> "d1"],
      [url |-> "u1", name |-> "n2", description |-> "d1"],
      [url |-> "u1", name |-> "n1", description |-> "d2"],
      [url |-> "u2", name |-> "n1", description |-> "d1"] }

ResourceLists(max) == UNION {[1..n -> ResourceKeys] : n \in 0..max}

NoId == 0 * 1

\* The two match functions handed to find_matches.
matches(res1, res2, exact) ==
    /\ res1.url = res2.url
    /\ exact => res1.name = res2.name /\ res1.description = res2.description

InList(x, list) == \E k \in DOMAIN list : list[k] = x

\* list.remove(x) for an x that is in the list.
remove(list, x) == SelectSeq(list, LAMBDA y : y # x)

MatchState(raised, unmatched_res_dicts, unmatched_existing_res_dicts, ids) ==
    [raised |-> raised, unmatched_res_dicts |-> unmatched_res_dicts,
     unmatched_existing_res_dicts |-> unmatched_existing_res_dicts, ids |-> ids]

\* The body of find_matches that leaves a matched existing resource in the
\* list of the unmatched ones.
RECURSIVE inner_loop_keeps_existing(_, _, _, _, _, _)
inner_loop_keeps_existing(res_dicts, existing, i, j, st, exact) ==
    IF j > Len(st.unmatched_existing_res_dicts) THEN st
    ELSE IF matches(res_dicts[i], existing[st.unmatched_existing_res_dicts[j]], exact)
    THEN IF ~InList(i, st.unmatched_res_dicts)
         THEN [st EXCEPT !.raised = TRUE,
                         !.ids[i] = st.unmatched_existing_res_dicts[j]]
         ELSE inner_loop_keeps_existing(res_dicts, existing, i, j + 1,
                  MatchState(FALSE, remove(st.unmatched_res_dicts, i),
                             st.unmatched_existing_res_dicts,
                             [st.ids EXCEPT ![i] = st.unmatched_existing_res_dicts[j]]),
                  exact)
    ELSE inner_loop_keeps_existing(res_dicts, existing, i, j + 1, st, exact)

\* Lines 1023-1027: for existing_res_dict in unmatched_existing_res_dicts,
\* from index j on, for the new resource i.  A match sets the id and removes
\* both elements; the loop goes on at index j + 1 of the shortened list.
\* unmatched_res_dicts.remove raises ValueError when i was removed before.
RECURSIVE inner_loop(_, _, _, _, _, _)
inner_loop(res_dicts, existing, i, j, st, exact) ==
    IF j > Len(st.unmatched_existing_res_dicts) THEN st
    ELSE IF matches(res_dicts[i], existing[st.unmatched_existing_res_dicts[j]], exact)
    THEN IF ~InList(i, st.unmatched_res_dicts)
         THEN [st EXCEPT !.raised = TRUE,
                         !.ids[i] = st.unmatched_existing_res_dicts[j]]
         ELSE inner_loop(res_dicts, existing, i, j + 1,
                  MatchState(FALSE, remove(st.unmatched_res_dicts, i),
                             remove(st.unmatched_existing_res_dicts,
                                    st.unmatched_existing_res_dicts[j]),
                             [st.ids EXCEPT ![i] = st.unmatched_existing_res_dicts[j]]),
                  exact)
    ELSE inner_loop(res_dicts, existing, i, j + 1, st, exact)

\* Lines 1022-1027: for res_dict in unmatched_res_dicts, from index k on.
RECURSIVE find_matches(_, _, _, _, _)
find_matches(res_dicts, existing, k, st, exact) ==
    IF st.raised \/ k > Len(st.unmatched_res_dicts) THEN st
    ELSE find_matches(res_dicts, existing, k + 1,
                      inner_loop(res_dicts, existing, st.unmatched_res_dicts[k], 1,
                                 st, exact),
                      exact)

\* The exact pass, then the url-only pass.
_match_resources_with_existing_ones(res_dicts, existing_resources) ==
    LET st0 == MatchState(FALSE, [k \in DOMAIN res_dicts |-> k],
                          [k \in DOMAIN existing_resources |-> k],
                          [k \in DOMAIN res_dicts |-> NoId])
        st1 == find_matches(res_dicts, existing_resources, 1, st0, TRUE)
    IN  find_matches(res_dicts, existing_resources, 1, st1, FALSE)

InitMatch ==
    /\ objs = <<>> /\ pkgs = <<>> /\ jobs = <<>>
    /\ inactive = {}
    /\ reject = FALSE
    /\ reimports = 0
    /\ externals = 0
    /\ procs = [c \in {1, 2} |-> Idle]
    /\ \E res_dicts \in ResourceLists(MaxNewResources),
          existing_resources \in ResourceLists(MaxExistingResources) :
           last = [op |-> "resources", res_dicts |-> res_dicts,
                   existing_resources |-> existing_resources]

\* Lines 690-692: the call on the payload's resources and the package's.
MatchResources ==
    /\ last.op = "resources"
    /\ \E st \in {_match_resources_with_existing_ones(last.res_dicts,
                                                       last.existing_resources)} :
           last' = [op |-> "match", res_dicts |-> last.res_dicts,
                    existing_resources |-> last.existing_resources,
                    raised |-> st.raised, ids |-> st.ids]
    /\ UNCHANGED <<objs, pkgs, jobs, inactive, reject, reimports, externals, procs>>

NextMatch == MatchResources

SpecMatch == InitMatch /\ [][NextMatch]_vars

IsMatch == last'.op = "match"

\* The existing resources equal to new resource i in url, name and
\* description, and those with its url.
ExactMatches(i) ==
    {e \in DOMAIN last'.existing_resources :
        /\ last'.existing_resources[e].url = last'.res_dicts[i].url
        /\ last'.existing_resources[e].name = last'.res_dicts[i].name
        /\ last'.existing_resources[e].description = last'.res_dicts[i].description}

UrlMatches(i) ==
    {e \in DOMAIN last'.existing_resources :
        last'.existing_resources[e].url = last'.res_dicts[i].url}

Returned == IsMatch /\ ~last'.raised

\* C31: resource matching runs two passes in priority order.  The call
\* returns, and then: an id given to a new resource is that of an existing
\* resource with its url; a new resource that has exact matches (equal url,
\* name and description) among the existing resources has the id of one of
\* them, unless each of them went to another new resource it matches
\* exactly; a new resource with no existing resource of its url gets no id.
C31_TwoPasses ==
    [][IsMatch =>
         /\ ~last'.raised
         /\ \A i \in DOMAIN last'.res_dicts :
              /\ last'.ids[i] # NoId => last'.ids[i] \in UrlMatches(i)
              /\ last'.ids[i] \notin ExactMatches(i) =>
                     \A e \in ExactMatches(i) :
                         \E i2 \in DOMAIN last'.res_dicts :
                             last'.ids[i2] = e /\ e \in ExactMatches(i2)
              /\ UrlMatches(i) = {} => last'.ids[i] = NoId]_vars

\* The priority of C31 alone, for the calls that return.
C31_PriorityWhenReturned ==
    [][Returned =>
         \A i \in DOMAIN last'.res_dicts :
             last'.ids[i] \notin ExactMatches(i) =>
                 \A e \in ExactMatches(i) :
                     \E i2 \in DOMAIN last'.res_dicts :
                         last'.ids[i2] = e /\ e \in ExactMatches(i2)]_vars

\* C38: _match_resources_with_existing_ones completes without raising for
\* every pair of lists, also when several existing resources share the url,
\* or the url, name and description, of one new resource.
C38_MatchNeverRaises ==
    [][IsMatch => ~last'.raised]_vars

\* C39: after _match_resources_with_existing_ones no two new resources
\* carry the same existing resource id, and every id assigned is that of an
\* existing resource with the url of the new resource.
C39_IdsDistinctSameUrl ==
    [][IsMatch =>
         \A i \in DOMAIN last'.res_dicts :
             last'.ids[i] # NoId =>
                 /\ last'.ids[i] \in DOMAIN last'.existing_resources
                 /\ last'.existing_resources[last'.ids[i]].url = last'.res_dicts[i].url
                 /\ \A i2 \in DOMAIN last'.res_dicts :
                        i2 # i => last'.ids[i2] # last'.ids[i]]_vars

\* Two new resources of one url have each received the id of an existing
\* resource of that url.
C39_Witness ==
    /\ last.op = "match" /\ ~last.raised
    /\ Len(last.res_dicts) = 2
    /\ last.res_dicts[1].url = last.res_dicts[2].url
    /\ last.ids[1] # NoId /\ last.ids[2] # NoId

\* The resources of the package the import has written, and the URLs of the
\* locators of its document, in order.
Payload(o) == pkgs'[objs'[o].package_id].resources

RECURSIVE NonEmptyUrls(_)
NonEmptyUrls(locators) ==
    IF locators = <<>> THEN <<>>
    ELSE IF Head(locators).url = "" THEN NonEmptyUrls(Tail(locators))
    ELSE <<Head(locators).url>> \o NonEmptyUrls(Tail(locators))

Flagged(rs) == {i \in DOMAIN rs : rs[i].ckan_recommended_wms_preview}
VerifiedWms(rs) == {i \in DOMAIN rs : rs[i].verified /\ rs[i].format = "WMS"}
AnyWms(rs) == {i \in DOMAIN rs : rs[i].format = "WMS"}

\* C32: in every payload written at most one resource carries the
\* recommended-preview flag: the first verified map-service resource when
\* there is one, otherwise the first map-service resource, and none when
\* there is no map-service resource; the resources are those of the
\* locators with a non-empty URL, in order.
C32_RecommendedPreview ==
    [][\A o \in DOMAIN objs : \A force \in BOOLEAN :
         (/\ IsImport(o, force)
          /\ last'.decision \in {"create", "update"}
          /\ "locators" \in DOMAIN objs[o].content)
             => /\ Cardinality(Flagged(Payload(o))) <= 1
                /\ \A i \in VerifiedWms(Payload(o)) :
                       (\A k \in VerifiedWms(Payload(o)) : i <= k)
                           => Flagged(Payload(o)) = {i}
                /\ (VerifiedWms(Payload(o)) = {}) =>
                       \A i \in AnyWms(Payload(o)) :
                           (\A k \in AnyWms(Payload(o)) : i <= k)
                               => Flagged(Payload(o)) = {i}
                /\ AnyWms(Payload(o)) = {} => Flagged(Payload(o)) = {}
                /\ [i \in DOMAIN Payload(o) |-> Payload(o)[i].url]
                       = NonEmptyUrls(objs[o].content.locators)]_vars

\* A package written from a document that locates a web page and then a map
\* service: two resources, the second one flagged.
C32_Witness ==
    /\ last.op = "import" /\ last.decision = "create" /\ last.ret = "True"
    /\ \E p \in DOMAIN pkgs :
         /\ pkgs[p].harvest_object_id = last.obj
         /\ Len(pkgs[p].resources) = 2
         /\ pkgs[p].resources[1].format = "None"
         /\ ~pkgs[p].resources[1].ckan_recommended_wms_preview
         /\ pkgs[p].resources[2].verified
         /\ pkgs[p].resources[2].ckan_recommended_wms_preview

(***************************************************************************)
(* The guard-order specification: the reconciliation specification plus the *)
(* transfer of a package to another publisher by an administrator, which    *)
(* the message of the ownership guard refers to.                            *)
(***************************************************************************)
TransferPackage(p, owner) ==
    /\ externals < MaxExternal
    /\ p \in DOMAIN pkgs
    /\ pkgs[p].owner_org # owner
    /\ pkgs' = [pkgs EXCEPT ![p].owner_org = owner]
    /\ externals' = externals + 1
    /\ last' = [op |-> "transfer", pid |-> p]
    /\ UNCHANGED <<objs, jobs, inactive, reject, reimports, procs>>

NextOrder ==
    \/ \E s \in ReconSources, r \in FetchFailures \cup Docs : DocGather(s, r, MaxObjs)
    \/ \E s \in ReconSources, files \in WafFiles(Docs) : WafGather(s, files, MaxObjs)
    \/ \E o \in DOMAIN objs, force \in BOOLEAN, env \in Envs : Import(o, force, env)
    \/ \E p \in DOMAIN pkgs : DeletePackage(p)
    \/ \E s \in SourceIds : DeactivateSource(s)
    \/ \E p \in DOMAIN pkgs, owner \in {Sources[s].publisher_id : s \in ReconSources} :
          TransferPackage(p, owner)

SpecOrder == Init /\ [][NextOrder]_vars

\* The one current attempt a of the GUID of o, read from the table.
PriorCurrent(o, a) ==
    /\ PassesGates(o)
    /\ CurrentOfGuid(objs[o].content.guid) = {a}
    /\ objs[a].package_id \in DOMAIN pkgs

OwnerDiffers(o, a) ==
    pkgs[objs[a].package_id].owner_org
        # Sources[jobs[objs[o].job].source].publisher_id

\* C33: the guards on a prior current attempt are applied in the order
\* same-job duplicate, ownership transfer, staleness.  An unforced import
\* whose prior current attempt is of its own job is rejected with the
\* same-job message, also when the owner differs; otherwise an import from a
\* source of another owner than the entry's, the entry not being deleted, is
\* rejected with an ownership message, also when date and content equal the
\* prior attempt's, and is never skipped.
C33_GuardOrder ==
    [][\A o \in DOMAIN objs : \A a \in DOMAIN objs : \A force \in BOOLEAN :
         (IsImport(o, force) /\ PriorCurrent(o, a))
             => /\ (~force /\ objs[a].job = objs[o].job)
                    => /\ last'.kind = "abort"
                       /\ last'.msg = "already used in this harvest"
                /\ (/\ force \/ objs[a].job # objs[o].job
                    /\ OwnerDiffers(o, a)
                    /\ pkgs[objs[a].package_id].state # "deleted")
                    => /\ last'.kind = "abort"
                       /\ last'.decision # "skip"
                       /\ last'.msg \in {"another publisher",
                                         "another publisher, different title"}
                       /\ pkgs' = pkgs]_vars

\* A same-job duplicate has been rejected as such although the entry's owner
\* is no longer the publisher of its source.
C33_Witness ==
    /\ last.op = "import" /\ ~last.force
    /\ last.msg = "already used in this harvest"
    /\ \E a \in DOMAIN objs :
         /\ a # last.obj /\ objs[a].current
         /\ objs[a].guid = objs[last.obj].guid
         /\ objs[a].job = objs[last.obj].job
         /\ pkgs[objs[a].package_id].owner_org
                # Sources[jobs[objs[a].job].source].publisher_id

\* An import from another owner's source has been rejected although its
\* date and content equal those of the prior current attempt.
C33_WitnessEqual ==
    /\ last.op = "import" /\ last.msg = "another publisher"
    /\ \E a \in DOMAIN objs :
         /\ a # last.obj /\ objs[a].current
         /\ objs[a].content = objs[last.obj].content
         /\ objs[a].metadata_modified_date = objs[last.obj].metadata_modified_date
         /\ pkgs[objs[a].package_id].state = "active"

\* The URLs of the input of the _process_licence call just made, anchor
\* first, then the bare URLs of the constraints in order, and its free text.
LooksLikeUrl(v) == v.scheme # "" /\ v.netloc # ""

GivenConstraints ==
    IF last'.anchor_title \notin {None, EmptyString} /\ last'.use_constraints = <<>>
    THEN <<last'.anchor_title>> ELSE last'.use_constraints

GivenUrls ==
    (IF AnchorGiven THEN <<last'.anchor_href>> ELSE <<>>)
        \o SelectSeq(GivenConstraints, LooksLikeUrl)

GivenFreeText == SelectSeq(GivenConstraints, LAMBDA v : ~LooksLikeUrl(v))

\* C34: _process_licence puts the first URL (anchor first, then bare URLs in
\* order) in licence_url and appends every subsequent URL to the licence
\* free-text list, for every combination of inputs, an anchor URL together
\* with constraints that are URLs only included.
C34_LicenceUrls ==
    [][(IsLicence /\ GivenUrls # <<>>) =>
         /\ ~last'.extras.raised
         /\ last'.extras.licence_url = Head(GivenUrls)
         /\ Tail(GivenUrls) # <<>> =>
                last'.extras.licence = GivenFreeText \o Tail(GivenUrls)]_vars

\* What the code keeps of C34: the same, whenever some constraint is free
\* text or there is a single URL.
C34_LicenceUrlsWithFreeText ==
    [][(/\ IsLicence /\ GivenUrls # <<>>
        /\ GivenFreeText # <<>> \/ Len(GivenUrls) = 1) =>
         /\ ~last'.extras.raised
         /\ last'.extras.licence_url = Head(GivenUrls)
         /\ Tail(GivenUrls) # <<>> =>
                last'.extras.licence = GivenFreeText \o Tail(GivenUrls)]_vars

\* Every current harvest object is linked to a package whose
\* 'harvest_object_id' extra is that object's id.
CurrentPointsBack ==
    \A i \in DOMAIN objs :
        objs[i].current =>
            /\ objs[i].package_id \in DOMAIN pkgs
            /\ pkgs[objs[i].package_id].harvest_object_id = i

\* The import of o has just returned from a create or an update.
Written(o, force) ==
    /\ IsImport(o, force)
    /\ last'.ret = "True" /\ last'.decision \in {"create", "update"}

\* C35: after every successful create or update, the attempt made current is
\* linked to the written catalog entry, the entry's 'harvest_object_id'
\* extra is that attempt's id and its 'guid' extra the document's identity;
\* hence in every reachable state (no import under way) each current
\* attempt has a non-null linked entry that points back to it.
C35_CurrentLinkedBack ==
    /\ []((\A c \in DOMAIN procs : procs[c].pc = "idle") => CurrentPointsBack)
    /\ [][\A o \in DOMAIN objs, force \in BOOLEAN :
            Written(o, force) =>
              /\ objs'[o].current
              /\ objs'[o].package_id \in DOMAIN pkgs'
              /\ pkgs'[objs'[o].package_id].harvest_object_id = o
              /\ pkgs'[objs'[o].package_id].guid = objs[o].content.guid]_vars

(***************************************************************************)
(* Interrupted imports followed by later harvests: one consumer that can be *)
(* killed between any two database round trips of an import, and a second   *)
(* job gathered once the first job's attempts have been handled.            *)
(***************************************************************************)
NextInterrupt ==
    \/ \E c \in Worker, o \in DOMAIN objs : ConcBegin(c, o)
    \/ \E c \in Worker : ConcWrite(c)
    \/ \E c \in Worker : ConcMarkNotCurrent(c)
    \/ \E c \in Worker : ConcMarkCurrent(c)
    \/ \E c \in Worker : Crash(c)
    \/ \E s \in ReconSources, f1, f2 \in LaterDocs :
          /\ \A i \in DOMAIN objs : objs[i].ret # "pending"
          /\ \A c \in Consumers : procs[c].pc = "idle"
          /\ WafGather(s, <<f1, f2>>, MaxObjs + MaxWafLinks)

SpecInterrupt == InitRace /\ [][NextInterrupt]_vars

\* C36: once an identity has had a successful create, no later import of
\* that identity yields another create, so at most one catalog entry exists
\* per identity after any sequence of imports, those in which an import is
\* interrupted after the siblings are marked not-current and before the new
\* attempt is marked current included.
C36_OneEntryPerIdentity ==
    [][\A g \in Guids :
          (/\ \E i \in DOMAIN objs : objs[i].guid = g /\ objs[i].package_id # NoPackage
           /\ Cardinality(PackagesOf(pkgs, g)) = 1) =>
              PackagesOf(pkgs', g) = PackagesOf(pkgs, g)]_vars

\* What the code keeps of C36: the same, while some attempt of the identity
\* is current.
C36_OneEntryWhileCurrent ==
    [][\A g \in Guids :
          (/\ \E i \in DOMAIN objs : objs[i].guid = g /\ objs[i].current
           /\ Cardinality(PackagesOf(pkgs, g)) = 1) =>
              PackagesOf(pkgs', g) = PackagesOf(pkgs, g)]_vars

\* C37: whenever import_stage records an error for an attempt and does not
\* return True, that attempt has not been made current and the catalog has
\* not been written by that import, failures raised after the catalog
\* write (such as one of the coupled-resources update) included.
C37_ErrorMeansNothingWritten ==
    [][\A o \in DOMAIN objs, force \in BOOLEAN :
          (IsImport(o, force) /\ Rejected(o)) =>
              /\ pkgs' = pkgs
              /\ objs'[o].current => objs[o].current]_vars

\* What the code keeps of C37: the same for every failure but that of the
\* coupled-resources update.
C37_ErrorBeforeWrite ==
    [][\A o \in DOMAIN objs, force \in BOOLEAN :
          (/\ IsImport(o, force) /\ Rejected(o)
           /\ last'.msg # "update_coupled_resources") =>
              /\ pkgs' = pkgs
              /\ CurrentFlagsUnchanged]_vars

\* The ids of the packages the step has created or changed.
WrittenIds == {p \in DOMAIN pkgs' : p \notin DOMAIN pkgs \/ pkgs'[p] # pkgs[p]}

\* C40: importing an attempt of identity g changes the current flag and the
\* linked entry only of that attempt and of attempts linked to the catalog
\* entry being written; attempts of any other identity, and attempts linked
\* to any other catalog entry, keep their current flag and linked entry.
C40_ImportFrame ==
    [][\A o \in DOMAIN objs, force \in BOOLEAN :
          IsImport(o, force) =>
              \A i \in DOMAIN objs \ {o} :
                  (\/ objs[i].package_id \notin WrittenIds
                   \/ objs[i].guid # objs[o].guid) =>
                      /\ objs'[i].current = objs[i].current
                      /\ objs'[i].package_id = objs[i].package_id]_vars

\* An entry has just been created for one identity while an attempt of
\* another identity, linked to another entry, was current: it still is.
C40_Witness ==
    /\ last.op = "import" /\ last.decision = "create" /\ last.ret = "True"
    /\ objs[last.obj].current
    /\ \E i \in DOMAIN objs :
          /\ objs[i].guid # objs[last.obj].guid
          /\ objs[i].current
          /\ objs[i].package_id \in DOMAIN pkgs
          /\ objs[i].package_id # objs[last.obj].package_id

\* An update has just taken the current flag from the attempt linked to the
\* entry it wrote, and left that attempt's link in place.
C40_WitnessSibling ==
    /\ last.op = "import" /\ last.decision = "update" /\ last.ret = "True"
    /\ \E i \in DOMAIN objs :
          /\ i # last.obj /\ ~objs[i].current
          /\ objs[i].package_id = objs[last.obj].package_id
          /\ pkgs[objs[i].package_id].harvest_object_id = last.obj

====
